---- MODULE Spec2Model ----
(***************************************************************************)
(* A model of the Ember+ consumer library: the S101 frame codec            *)
(* (s101/codec.go), the Glow/BER reader (asn1) and the element decoder     *)
(* and collection (ember).  Bytes are naturals 0..255, byte slices and Go  *)
(* strings are sequences of bytes, a nil slice is the empty sequence.      *)
(***************************************************************************)
EXTENDS Integers, Sequences, FiniteSets, TLC

VARIABLES
    pc,              \* position of the S101 scenario
    message,         \* Encode: the payload handed in
    packetType,      \* Encode: the packet type handed in
    escaped,         \* createS101: the local escaped of the first frame written
    crc,             \* getCRC: the local crc (16 bit) of each frame written
    wire,            \* the byte stream (output of Encode, or bytes read)
    s101s,           \* GetS101s: the frames returned
    incompleteData,  \* GetS101s: the raw data of an incomplete packet
    getErr,          \* GetS101s: the error returned
    resumed,         \* the two GetS101s calls of a stream read in two parts
    out,             \* Decode: the glow data returned
    lastPacketType,  \* Decode: the packet type returned
    decErr,          \* Decode: the error returned
    reqErr,          \* GetRootRequest, GetRequestByType: the error returned
    epc,             \* the position of the collection scenario
    response,        \* the payload given to Populate
    sent,            \* the parameter the payload was made from, if from one
    collection,      \* the element collection
    popErr,          \* Populate: the error returned
    lookup,          \* GetElementByPath: the child looked up and the result
    finding,         \* findWithData: the decoders given and the result
    apc,             \* the position of the asn1 scenario
    encArgs,         \* Encoder: the bytes it held and the arguments of the call
    encRes,          \* Encoder: the bytes it holds and the error returned
    decArgs,         \* Decoder: the bytes it held and the arguments of the call
    decRes,          \* Decoder: what the call returned and the bytes left
    conn,            \* EmberClient: the connection held
    pending,         \* what the reads of the connection will return, in order
    lastCall,        \* EmberClient: the last call made and what it returned
    conns,           \* ConnCollection: the handler stored for the ConnConfig
    done,            \* ConnCollection: the channel done is closed
    handler,         \* connHandler: conn, mu, readData closed, and what will be read
    caller,          \* HandleRequest: the position of each caller and its result
    pathReader,      \* pathReader: the position of each handler's goroutine
    reader           \* reader: the position of each handler's goroutine

s101vars == <<pc, message, packetType, escaped, crc, wire, s101s, incompleteData, getErr,
              resumed, out, lastPacketType, decErr, reqErr>>

embervars == <<epc, response, sent, collection, popErr, lookup, finding>>

asn1vars == <<apc, encArgs, encRes, decArgs, decRes>>

clientvars == <<conn, pending, lastCall>>

connvars == <<conns, done, handler, caller, pathReader, reader>>

vars == <<s101vars, embervars, asn1vars, clientvars, connvars>>

(***************************************************************************)
(* Bounds of the model.                                                    *)
(***************************************************************************)
MaxLen == 2

MaxRaw == 4

\* The number of children of an element given to Populate.
MaxChildren == 1

\* The number of bytes a Decoder holds after a length byte.
MaxRest == 4

(***************************************************************************)
(* Bit operations on naturals.                                             *)
(***************************************************************************)
\* Bit i of x, and the bitwise operations on bytes and on 16 bit words.
Bit(x, i) == (x \div (2 ^ i)) % 2

XorBit(x, y, i) == ((Bit(x, i) + Bit(y, i)) % 2) * (2 ^ i)

OrBit(x, y, i) == (IF Bit(x, i) + Bit(y, i) > 0 THEN 1 ELSE 0) * (2 ^ i)

AndBit(x, y, i) == (Bit(x, i) * Bit(y, i)) * (2 ^ i)

XorByte(x, y) ==
    XorBit(x, y, 0) + XorBit(x, y, 1) + XorBit(x, y, 2) + XorBit(x, y, 3)
    + XorBit(x, y, 4) + XorBit(x, y, 5) + XorBit(x, y, 6) + XorBit(x, y, 7)

OrByte(x, y) ==
    OrBit(x, y, 0) + OrBit(x, y, 1) + OrBit(x, y, 2) + OrBit(x, y, 3)
    + OrBit(x, y, 4) + OrBit(x, y, 5) + OrBit(x, y, 6) + OrBit(x, y, 7)

AndByte(x, y) ==
    AndBit(x, y, 0) + AndBit(x, y, 1) + AndBit(x, y, 2) + AndBit(x, y, 3)
    + AndBit(x, y, 4) + AndBit(x, y, 5) + AndBit(x, y, 6) + AndBit(x, y, 7)

Xor16(x, y) == 256 * XorByte(x \div 256, y \div 256) + XorByte(x % 256, y % 256)

\* The two halves of a sequence.  A loop over a sequence is modelled as the
\* loop over its first half followed, from the state reached, by the loop over
\* its second half, which keeps the depth of evaluation logarithmic.  The
\* loops are functions: a function is applied to the values of its arguments.
FirstHalf(s) == SubSeq(s, 1, Len(s) \div 2)

SecondHalf(s) == SubSeq(s, (Len(s) \div 2) + 1, Len(s))

(***************************************************************************)
(* S101 constants.  The file of package s101 that declares them is not     *)
(* part of the sources at hand; the values are those of the S101 framing   *)
(* described in the specification.                                         *)
(***************************************************************************)
bof == 254

eof == 255

ce == 253

xorce == 32

bofne == 248

eof16 == 65535

checkSumSecondDeviation == 8

slot == 0

messageType == 14

commandType == 0

version == 1

dtdType == 1

appBytes == 2

minorVersion == 31

majorVersion == 2

SinglePacket == 192

FirstMultiPacket == 128

BodyMultiPacket == 96

LastMultiPacket == 64

s101LenTilGlow == 10

s101LenAfterGlow == 3

crcTable ==
<<
    0, 4489, 8978, 12955, 17956, 22445, 25910, 29887,
    35912, 40385, 44890, 48851, 51820, 56293, 59774, 63735,
    4225, 264, 13203, 8730, 22181, 18220, 30135, 25662,
    40137, 36160, 49115, 44626, 56045, 52068, 63999, 59510,
    8450, 12427, 528, 5017, 26406, 30383, 17460, 21949,
    44362, 48323, 36440, 40913, 60270, 64231, 51324, 55797,
    12675, 8202, 4753, 792, 30631, 26158, 21685, 17724,
    48587, 44098, 40665, 36688, 64495, 60006, 55549, 51572,
    16900, 21389, 24854, 28831, 1056, 5545, 10034, 14011,
    52812, 57285, 60766, 64727, 34920, 39393, 43898, 47859,
    21125, 17164, 29079, 24606, 5281, 1320, 14259, 9786,
    57037, 53060, 64991, 60502, 39145, 35168, 48123, 43634,
    25350, 29327, 16404, 20893, 9506, 13483, 1584, 6073,
    61262, 65223, 52316, 56789, 43370, 47331, 35448, 39921,
    29575, 25102, 20629, 16668, 13731, 9258, 5809, 1848,
    65487, 60998, 56541, 52564, 47595, 43106, 39673, 35696,
    33800, 38273, 42778, 46739, 49708, 54181, 57662, 61623,
    2112, 6601, 11090, 15067, 20068, 24557, 28022, 31999,
    38025, 34048, 47003, 42514, 53933, 49956, 61887, 57398,
    6337, 2376, 15315, 10842, 24293, 20332, 32247, 27774,
    42250, 46211, 34328, 38801, 58158, 62119, 49212, 53685,
    10562, 14539, 2640, 7129, 28518, 32495, 19572, 24061,
    46475, 41986, 38553, 34576, 62383, 57894, 53437, 49460,
    14787, 10314, 6865, 2904, 32743, 28270, 23797, 19836,
    50700, 55173, 58654, 62615, 32808, 37281, 41786, 45747,
    19012, 23501, 26966, 30943, 3168, 7657, 12146, 16123,
    54925, 50948, 62879, 58390, 37033, 33056, 46011, 41522,
    23237, 19276, 31191, 26718, 7393, 3432, 16371, 11898,
    59150, 63111, 50204, 54677, 41258, 45219, 33336, 37809,
    27462, 31439, 18516, 23005, 11618, 15595, 3696, 8185,
    63375, 58886, 54429, 50452, 45483, 40994, 37561, 33584,
    31687, 27214, 22741, 18780, 15843, 11370, 7921, 3960
>>

(***************************************************************************)
(* s101/codec.go                                                           *)
(***************************************************************************)
computeCRCByte(c, b) ==
    Xor16(c \div 256, crcTable[XorByte(c % 256, b) + 1]) % 65536

parseCRC(in) ==
    (IF in[1] < bofne THEN <<in[1]>> ELSE <<ce, XorByte(in[1], xorce)>>)
    \o (IF in[2] < bofne THEN <<in[2]>> ELSE <<ce, XorByte(in[2], xorce)>>)

\* One pass of the loop of getCRC.  st.next is TRUE when the byte read before
\* was ce: the loop then reads this byte as next and uses xorce ^ next.
getCRCStep(st, b) ==
    IF st.next THEN [crc |-> computeCRCByte(st.crc, XorByte(xorce, b)), next |-> FALSE]
    ELSE IF b = ce THEN [crc |-> st.crc, next |-> TRUE]
    ELSE [crc |-> computeCRCByte(st.crc, b), next |-> FALSE]

\* The locals of the loop of getCRC.
getCRCLocals == [crc : 0..65535, next : BOOLEAN]

getCRCLoop[st \in getCRCLocals, data \in Seq(0..255)] ==
    IF Len(data) = 0 THEN st
    ELSE IF Len(data) = 1 THEN getCRCStep(st, data[1])
    ELSE getCRCLoop[getCRCLoop[st, FirstHalf(data)], SecondHalf(data)]

\* The value of the local crc of getCRC after crc = (^crc) & eof16.
getCRCValue(data) ==
    (65535 - getCRCLoop[[crc |-> eof16, next |-> FALSE], data].crc) % 65536

getCRC(data) ==
    LET c == getCRCValue(data)
    IN  parseCRC(<<c % 256, c \div (2 ^ checkSumSecondDeviation)>>)

\* A variant of escapeStep that leaves the escaped byte as it is.
escapeStepNoXor(b) == IF b >= bofne THEN <<ce, b>> ELSE <<b>>

\* One pass of the loop of escapeBytesAboveBOFNE: what it appends for byte b.
escapeStep(b) == IF b >= bofne THEN <<ce, XorByte(xorce, b)>> ELSE <<b>>

escapeLoop[msg \in Seq(0..255)] ==
    IF Len(msg) = 0 THEN <<>>
    ELSE IF Len(msg) = 1 THEN escapeStep(msg[1])
    ELSE escapeLoop[FirstHalf(msg)] \o escapeLoop[SecondHalf(msg)]

escapeBytesAboveBOFNE(msg) == escapeLoop[msg]

s101Info(pType) ==
    <<slot, messageType, commandType, version, pType, dtdType, appBytes,
      minorVersion, majorVersion>>

\* A variant of createS101 that writes the CRC high byte first.
createS101HighFirst(payload, pType) ==
    <<bof>> \o s101Info(pType) \o escapeBytesAboveBOFNE(payload)
            \o parseCRC(<<getCRCValue(s101Info(pType) \o payload) \div 256,
                          getCRCValue(s101Info(pType) \o payload) % 256>>)
            \o <<eof>>

createS101(payload, pType) ==
    <<bof>> \o s101Info(pType) \o escapeBytesAboveBOFNE(payload)
        \o getCRC(s101Info(pType) \o payload) \o <<eof>>

\* A variant of Encode that never appends the empty last packet.
EncodeNoLastPacket(msg, pType) == createS101(msg, pType)

Encode(msg, pType) ==
    IF pType = FirstMultiPacket
    THEN createS101(msg, pType) \o createS101(<<>>, LastMultiPacket)
    ELSE createS101(msg, pType)

\* A variant of getS101sStep in which a BOF inside a frame is one more byte
\* of the frame.
getS101sStepKeepsBOF(st, b) ==
    IF b = bof /\ ~st.startFound
    THEN [st EXCEPT !.startFound = TRUE, !.single = <<b>>]
    ELSE IF st.startFound
         THEN IF b = eof
              THEN [startFound |-> FALSE, endFound |-> TRUE,
                    out |-> Append(st.out, Append(st.single, b)), single |-> <<>>]
              ELSE [st EXCEPT !.single = Append(st.single, b)]
         ELSE st

\* One pass of the loop of getS101s, for the byte b read.
getS101sStep(st, b) ==
    IF b = bof
    THEN [st EXCEPT !.startFound = TRUE, !.single = <<b>>]
    ELSE IF st.startFound
         THEN IF b = eof
              THEN [startFound |-> FALSE, endFound |-> TRUE,
                    out |-> Append(st.out, Append(st.single, b)), single |-> <<>>]
              ELSE [st EXCEPT !.single = Append(st.single, b)]
         ELSE st

\* The locals of the loop of getS101s.
getS101sLocals ==
    [startFound : BOOLEAN, endFound : BOOLEAN, out : Seq(Seq(0..255)), single : Seq(0..255)]

getS101sLoop[st \in getS101sLocals, in \in Seq(0..255)] ==
    IF Len(in) = 0 THEN st
    ELSE IF Len(in) = 1 THEN getS101sStep(st, in[1])
    ELSE getS101sLoop[getS101sLoop[st, FirstHalf(in)], SecondHalf(in)]

\* The loop ends when ReadByte fails at the end of the input.
getS101s(in) ==
    LET st == getS101sLoop[[startFound |-> FALSE, endFound |-> FALSE,
                            out |-> <<>>, single |-> <<>>], in]
    IN  IF ~st.endFound
        THEN [s101s |-> <<>>, incompleteData |-> st.single]
        ELSE [s101s |-> st.out, incompleteData |-> <<>>]

\* GetS101s without the test for an empty message.
GetS101sNoCheck(msg) ==
    [s101s |-> getS101s(msg).s101s,
     incompleteData |-> getS101s(msg).incompleteData,
     err |-> "nil"]

GetS101s(msg) ==
    IF Len(msg) = 0
    THEN [s101s |-> <<>>, incompleteData |-> <<>>, err |-> "no data"]
    ELSE [s101s |-> getS101s(msg).s101s,
          incompleteData |-> getS101s(msg).incompleteData,
          err |-> "nil"]

\* One pass of the inner loop of Decode, for the byte b of the frame.
decodeStep(st, b) ==
    IF b = ce THEN [st EXCEPT !.ceFound = TRUE]
    ELSE IF st.ceFound THEN [ceFound |-> FALSE, glow |-> Append(st.glow, XorByte(xorce, b))]
    ELSE [st EXCEPT !.glow = Append(st.glow, b)]

\* The locals of the inner loop of Decode.
decodeLocals == [ceFound : BOOLEAN, glow : Seq(0..255)]

decodeInner[st \in decodeLocals, s101 \in Seq(0..255)] ==
    IF Len(s101) = 0 THEN st
    ELSE IF Len(s101) = 1 THEN decodeStep(st, s101[1])
    ELSE decodeInner[decodeInner[st, FirstHalf(s101)], SecondHalf(s101)]

\* The outer loop of Decode.  glow[s101LenTilGlow:] panics (slice bounds out
\* of range) when fewer than s101LenTilGlow bytes are left: err "panic".
decodeLoop[frames \in Seq(Seq(0..255)), i \in Nat, acc \in Seq(0..255), lpt \in 0..255] ==
    IF i > Len(frames) THEN [out |-> acc, lastPacketType |-> lpt, err |-> "nil"]
    ELSE LET s101 == frames[i] IN
         IF Len(s101) < s101LenTilGlow + s101LenAfterGlow
         THEN [out |-> <<>>, lastPacketType |-> 0, err |-> "malformed"]
         ELSE LET last == IF i = Len(frames) THEN s101[6] ELSE lpt
                  glow == decodeInner[[ceFound |-> FALSE, glow |-> <<>>],
                                      SubSeq(s101, 1, Len(s101) - s101LenAfterGlow)].glow
              IN  IF Len(glow) < s101LenTilGlow
                  THEN [out |-> <<>>, lastPacketType |-> 0, err |-> "panic"]
                  ELSE decodeLoop[frames, i + 1,
                                  acc \o SubSeq(glow, s101LenTilGlow + 1, Len(glow)), last]

\* A variant of Decode that passes over the frames that are too short.
DecodeSkipsShort(frames) ==
    decodeLoop[SelectSeq(frames, LAMBDA f : Len(f) >= s101LenTilGlow + s101LenAfterGlow),
               1, <<>>, 0]

Decode(frames) == decodeLoop[frames, 1, <<>>, 0]

(***************************************************************************)
(* asn1: tag bytes (asn1 types file) and the request encoder               *)
(* (asn1/asn1Encoder.go).  An Encoder is the sequence of bytes written.    *)
(***************************************************************************)
contextByte == 128

contextOR == 160

applicationOR == 96

lenByte == 127

maxLengthBytes == 4

closingOffset == 2

closingByte == 0

RootElementCollectionTag == 0

RootElementTag == 11

ElementCollectionTag == 4

ContextZeroTag == 0

ContextTagOne == 1

ContextTagTwo == 2

QualifiedParameterTag == 9

QualifiedNodeTag == 10

SetTag == 49

UniversalObjectTag == 13

UTF8StringTag == 12

emberIntTag == 2

commandApplicationTag == 2

elementCollectionTag == 4

functionTag == 20

EmberGetDirCommand == 32

EmberGetUnsubscribeCommand == 31

dirFieldMaskAll == -1

ParameterType == "parameter"

QualifiedParameterType == "qualified_parameter"

QualifiedNodeType == "qualified_node"

NodeType == "node"

FunctionType == "function"

ApplicationByte(num) == OrByte(applicationOR, num)

ContextByte(num) == OrByte(contextOR, num)

UniversalByte(num) == num

\* encoding/asn1 Marshal of an int: a DER INTEGER, the shortest two's
\* complement form, most significant byte first.
RECURSIVE intLength(_)
intLength(i) ==
    IF -128 <= i /\ i <= 127 THEN 1 ELSE 1 + intLength((i - (i % 256)) \div 256)

RECURSIVE bigEndian(_, _)
bigEndian(v, n) ==
    IF n = 0 THEN <<>> ELSE Append(bigEndian(v \div 256, n - 1), v % 256)

Marshal(i) ==
    LET n == intLength(i) IN <<emberIntTag, n>> \o bigEndian(i % (256 ^ n), n)

openSequence(data, appl) == data \o <<appl, contextByte>>

\* A variant of closeSequence that writes one byte.
closeSequenceOneByte(data) == data \o <<0>>

closeSequence(data) == data \o <<0, 0>>

writeInt(data, i, cont) ==
    data \o <<ContextByte(cont)>> \o <<Len(Marshal(i)) % 256>> \o Marshal(i)

\* A variant of WriteCommand that writes the field mask for every command.
WriteCommandAlwaysMask(data, cmd) ==
    [data |-> closeSequence(closeSequence(writeInt(writeInt(
                  openSequence(openSequence(data, ContextByte(0)),
                               ApplicationByte(commandApplicationTag)),
                  cmd, 0), dirFieldMaskAll, 1))),
     err |-> "nil"]

\* The deferred closeSequence calls run when the function returns, last
\* deferred first; each writes the same two bytes.
WriteCommand(data, cmd) ==
    LET d1 == openSequence(data, ContextByte(0))
        d2 == openSequence(d1, ApplicationByte(commandApplicationTag))
        d3 == writeInt(d2, cmd, 0)
        d4 == IF cmd = EmberGetDirCommand THEN writeInt(d3, dirFieldMaskAll, 1) ELSE d3
    IN  [data |-> closeSequence(closeSequence(d4)), err |-> "nil"]

WriteRootTreeRequest(data) ==
    LET d1 == openSequence(data, ApplicationByte(RootElementCollectionTag))
        d2 == openSequence(d1, ApplicationByte(RootElementTag))
        w == WriteCommand(d2, EmberGetDirCommand)
    IN  [data |-> closeSequence(closeSequence(w.data)), err |-> w.err]

writeBytes(path) == [i \in 1..Len(path) |-> path[i] % 256]

\* A variant of WriteUniversal that writes no length byte.
WriteUniversalNoLength(data, path) ==
    data \o <<UniversalObjectTag>> \o writeBytes(path)

WriteUniversal(data, path) ==
    data \o <<UniversalObjectTag, Len(path) % 256>> \o writeBytes(path)

\* A variant of WriteRequest that returns after the third container is
\* opened and closes none.
WriteRequestUnclosed(data, path, tag, cmd) ==
    [data |-> openSequence(openSequence(openSequence(data,
                  ApplicationByte(RootElementCollectionTag)),
                  ApplicationByte(RootElementTag)), ContextByte(0)),
     err |-> "unknown application tag"]

WriteRequest(data, path, tag, cmd) ==
    LET d1 == openSequence(data, ApplicationByte(RootElementCollectionTag))
        d2 == openSequence(d1, ApplicationByte(RootElementTag))
        d3 == openSequence(d2, ContextByte(0))
        known == tag \in {ParameterType, QualifiedParameterType, NodeType,
                          QualifiedNodeType, FunctionType}
        d4 == IF tag \in {ParameterType, QualifiedParameterType}
              THEN openSequence(d3, ApplicationByte(QualifiedParameterTag))
              ELSE IF tag \in {NodeType, QualifiedNodeType}
              THEN openSequence(d3, ApplicationByte(QualifiedNodeTag))
              ELSE openSequence(d3, ApplicationByte(functionTag))
        d5 == openSequence(d4, ContextByte(0))
        d6 == WriteUniversal(d5, path)
        d7 == openSequence(d6, ContextByte(2))
        d8 == openSequence(d7, ApplicationByte(elementCollectionTag))
        w == WriteCommand(d8, cmd)
        close3(d) == closeSequence(closeSequence(closeSequence(d)))
    IN  IF ~known
        THEN [data |-> close3(d3), err |-> "unknown application tag"]
        ELSE [data |-> close3(closeSequence(close3(w.data))), err |-> w.err]

(***************************************************************************)
(* ember: the requests (GetRootRequest, GetRequestByType, parsePath).      *)
(* A Go string is the sequence of its bytes.                               *)
(***************************************************************************)
Dot == 46

IsDigit(c) == 48 <= c /\ c <= 57

RECURSIVE digitsValue(_, _)
digitsValue(s, acc) ==
    IF s = <<>> THEN acc ELSE digitsValue(Tail(s), acc * 10 + (Head(s) - 48))

\* strconv.Atoi: an optional sign, then one or more decimal digits.
Atoi(s) ==
    LET signed == s # <<>> /\ Head(s) \in {43, 45}
        digits == IF signed THEN Tail(s) ELSE s
    IN  IF digits = <<>> \/ \E i \in 1..Len(digits) : ~IsDigit(digits[i])
        THEN [err |-> "syntax", val |-> 0]
        ELSE [err |-> "nil",
              val |-> IF signed /\ Head(s) = 45 THEN 0 - digitsValue(digits, 0)
                      ELSE digitsValue(digits, 0)]

\* strings.Split(s, "."): the parts between the dots, empty parts included.
RECURSIVE SplitDots(_, _)
SplitDots(s, cur) ==
    IF s = <<>> THEN <<cur>>
    ELSE IF Head(s) = Dot THEN <<cur>> \o SplitDots(Tail(s), <<>>)
    ELSE SplitDots(Tail(s), Append(cur, Head(s)))

parsePath(path) ==
    IF path = <<>> THEN [err |-> "nil", out |-> <<>>]
    ELSE LET paths == SplitDots(path, <<>>) IN
         IF \E i \in 1..Len(paths) : Atoi(paths[i]).err # "nil"
         THEN [err |-> "failed to parse path component", out |-> <<>>]
         ELSE [err |-> "nil", out |-> [i \in 1..Len(paths) |-> Atoi(paths[i]).val]]

\* The result of a request function: the packet type it hands to s101.Encode,
\* the glow payload it hands over and the bytes it returns.
GetRootRequest ==
    LET w == WriteRootTreeRequest(<<>>) IN
    IF w.err # "nil"
    THEN [err |-> w.err, pType |-> 0, glow |-> <<>>, bytes |-> <<>>]
    ELSE [err |-> "nil", pType |-> FirstMultiPacket, glow |-> w.data,
          bytes |-> Encode(w.data, FirstMultiPacket)]

GetRequestByType(et, path) ==
    LET parsed == parsePath(path)
        w == WriteRequest(<<>>, parsed.out, et, EmberGetDirCommand)
    IN  IF parsed.err # "nil"
        THEN [err |-> "failed to parse path", pType |-> 0, glow |-> <<>>, bytes |-> <<>>]
        ELSE IF w.err # "nil"
        THEN [err |-> "failed to write request", pType |-> 0, glow |-> <<>>, bytes |-> <<>>]
        ELSE [err |-> "nil", pType |-> FirstMultiPacket, glow |-> w.data,
              bytes |-> Encode(w.data, FirstMultiPacket)]

(***************************************************************************)
(* The asn1 decoder.  A Decoder is the sequence of bytes its buffer still  *)
(* holds; an operation returns what it read and the bytes left (rest).  An *)
(* error is the sequence of wrapped messages, outermost first; <<>> is nil.*)
(* A result that has an error has no other field.                          *)
(*                                                                         *)
(* (CHOOSE the \in {body : x \in {e}}) is body with x the value of e: a call is made   *)
(* once and its result named.  The names are listed after the body, the    *)
(* first call last.                                                        *)
(***************************************************************************)
nil == <<>>

ErrNoLenByte == <<"can not determine length">>

EOF == <<"EOF">>

Wrap(msg, err) == <<msg>> \o err

\* if err != nil { return fmt.Errorf(msg, err) }
Fail(msg, err) == [err |-> Wrap(msg, err)]

\* The big-endian value of a sequence of bytes (out = out<<8 + val).
RECURSIVE beValue(_)
beValue(s) ==
    IF s = <<>> THEN 0 ELSE beValue(SubSeq(s, 1, Len(s) - 1)) * 256 + s[Len(s)]

\* The function compareByte given to Read, by its name.
compareByte(name, tag) ==
    IF name = "ApplicationByte" THEN ApplicationByte(tag)
    ELSE IF name = "ContextByte" THEN ContextByte(tag)
    ELSE UniversalByte(tag)

ReadByte(c) ==
    IF c = <<>> THEN Fail("failed to read byte", EOF)
    ELSE [err |-> nil, b |-> c[1], rest |-> Tail(c)]

\* A variant of readLength that takes every first byte as the length.
readLengthNoLongForm(c) ==
    IF c = <<>> THEN Fail("incorrect length byte", EOF)
    ELSE [err |-> nil, len |-> c[1], offset |-> 1, rest |-> Tail(c)]

readLength(c) ==
    (CHOOSE the \in {
         IF c = <<>> THEN Fail("incorrect length byte", EOF)
         ELSE IF c[1] < contextByte
         THEN [err |-> nil, len |-> c[1], offset |-> 1, rest |-> Tail(c)]
         ELSE IF lenB = 0 THEN [err |-> ErrNoLenByte, rest |-> Tail(c)]
         ELSE IF lenB > maxLengthBytes THEN [err |-> <<"length higher than 4">>]
         ELSE IF Len(c) - 1 < lenB THEN Fail("incorrect additional length bytes", EOF)
         ELSE [err |-> nil, len |-> beValue(SubSeq(c, 2, lenB + 1)), offset |-> lenB + 1,
               rest |-> SubSeq(c, lenB + 2, Len(c))]
    : lenB \in {IF c = <<>> THEN 0 ELSE AndByte(c[1], lenByte)}} : TRUE)

readWithOutLength(c) == [err |-> nil, out |-> c, rest |-> <<>>]

\* A variant of readWithLength that hands out all the bytes there are.
readWithLengthAll(c, length) == [err |-> nil, out |-> c, rest |-> <<>>]

\* bytes.Buffer.Read: an empty destination reads nothing, an empty buffer is
\* EOF, and otherwise it copies what there is.
readWithLength(c, length) ==
    IF length = 0 THEN [err |-> nil, out |-> <<>>, rest |-> c]
    ELSE IF c = <<>> THEN Fail("failed to read bytes with set length", EOF)
    ELSE IF Len(c) < length
    THEN [err |-> <<"failed to read bytes with set length, length does not match">>]
    ELSE [err |-> nil, out |-> SubSeq(c, 1, length),
          rest |-> SubSeq(c, length + 1, Len(c))]

\* Read after the tag byte: the length and the bytes of the block.
readBlock(c) ==
    (CHOOSE the \in {IF l.err = ErrNoLenByte
         THEN [err |-> nil, dec |-> readWithOutLength(l.rest).out, unknown |-> TRUE,
               rest |-> readWithOutLength(l.rest).rest]
         ELSE IF l.err # nil THEN Fail("failed to read length byte", l.err)
         ELSE
    (CHOOSE the \in {IF block.err # nil THEN Fail("failed to read with provided length", block.err)
         ELSE [err |-> nil, dec |-> block.out, unknown |-> FALSE, rest |-> block.rest]
    : block \in {readWithLength(l.rest, l.len)}} : TRUE)
    : l \in {readLength(c)}} : TRUE)

\* dec is the decoder returned, rest what the decoder read from still holds.
Read(c, tag, compare) ==
    IF c = <<>> THEN Fail("failed to read tag byte", EOF)
    ELSE IF c[1] # compareByte(compare, tag) THEN [err |-> <<"is not correct byte">>]
    ELSE readBlock(Tail(c))

\* A variant of ReadEnd that does not move over the end marker.
ReadEndNoMove(c) ==
    [err |-> nil, end |-> Len(c) = 0 \/ (Len(c) >= 2 /\ c[1] = 0 /\ c[2] = 0), rest |-> c]

ReadEnd(c) ==
    IF Len(c) = 0 THEN [err |-> nil, end |-> TRUE, rest |-> c]
    ELSE IF Len(c) < 2 THEN [err |-> <<"not enough bytes">>, end |-> FALSE, rest |-> c]
    ELSE IF c[1] # closingByte \/ c[2] # closingByte
    THEN [err |-> nil, end |-> FALSE, rest |-> c]
    ELSE [err |-> nil, end |-> TRUE, rest |-> SubSeq(c, closingOffset + 1, Len(c))]

Peek(c) ==
    IF c = <<>> THEN Fail("failed to read a byte", EOF) ELSE [err |-> nil, b |-> c[1]]

\* What DecodeUniversal, DecodeUTF8 and DecodeInteger share: the tag, the
\* length, and then length bytes read one by one.

readTagged(c, tag, badTag) ==
    (CHOOSE the \in {
         IF c = <<>> THEN Fail("failed to read tag byte", EOF)
         ELSE IF c[1] # tag THEN [err |-> <<badTag>>]
         ELSE IF l.err # nil THEN Fail("failed to read len byte", l.err)
         ELSE IF Len(l.rest) < l.len THEN Fail("failed to read bytes", EOF)
         ELSE [err |-> nil, out |-> SubSeq(l.rest, 1, l.len),
               rest |-> SubSeq(l.rest, l.len + 1, Len(l.rest))]
    : l \in {IF c = <<>> THEN [err |-> EOF] ELSE readLength(Tail(c))}} : TRUE)

\* A variant of DecodeUniversal that reads every byte after the length.
DecodeUniversalToEnd(c) ==
    IF Len(c) < 2 THEN Fail("failed to read tag byte", EOF)
    ELSE [err |-> nil, out |-> SubSeq(c, 3, Len(c)), rest |-> <<>>]

DecodeUniversal(c) == readTagged(c, UniversalObjectTag, "incorrect universal byte")

DecodeUTF8(c) == readTagged(c, UTF8StringTag, "incorrect utf8 string byte")

\* out = (out << 8) | b over the length bytes: no sign is taken from the
\* first byte.

DecodeInteger(c) ==
    (CHOOSE the \in {
         IF r.err # nil THEN r ELSE [err |-> nil, out |-> beValue(r.out), rest |-> r.rest]
    : r \in {readTagged(c, emberIntTag, "incorrect integer byte")}} : TRUE)

\* DecodeAny hands the bytes to the ASN.1 library (DER): one value is parsed
\* from the front and n is the number of bytes it took.  kind says what the
\* value is decoded into: "bool" or "any".  A value of type any is nil when
\* the library does not know the tag; the types it knows other than boolean,
\* integer and UTF8 string are kept as one abstract value.
NilAny == [t |-> "nil"]

OtherKnownTags == {3, 4, 6, 18, 19, 20, 22, 23, 24, 30}

\* The DER length at the front of c: short form, or the long form with no
\* leading zero and a value of 128 or more.

derLength(c) ==
    (CHOOSE the \in {
         IF c = <<>> THEN [err |-> <<"truncated tag or length">>]
         ELSE IF c[1] < 128 THEN [err |-> nil, len |-> c[1], hdr |-> 1]
         ELSE IF numBytes = 0 THEN [err |-> <<"indefinite length found (not DER)">>]
         ELSE IF Len(c) - 1 < numBytes THEN [err |-> <<"truncated tag or length">>]
         ELSE IF c[2] = 0 THEN [err |-> <<"superfluous leading zeros in length">>]
         ELSE IF numBytes > 3 THEN [err |-> <<"length too large">>]
         ELSE IF beValue(SubSeq(c, 2, numBytes + 1)) < 128 THEN [err |-> <<"non-minimal length">>]
         ELSE [err |-> nil, len |-> beValue(SubSeq(c, 2, numBytes + 1)), hdr |-> numBytes + 1]
    : numBytes \in {IF c = <<>> THEN 0 ELSE AndByte(c[1], lenByte)}} : TRUE)

derValue(tag, content) ==
    IF tag = 1  \* BOOLEAN
    THEN IF Len(content) # 1 \/ content[1] \notin {0, 255}
         THEN [err |-> <<"invalid boolean">>]
         ELSE [err |-> nil, val |-> [t |-> "bool", v |-> content[1] = 255]]
    ELSE IF tag = emberIntTag
    THEN IF \/ Len(content) = 0
            \/ Len(content) > 8
            \/ (Len(content) > 1 /\ content[1] = 0 /\ content[2] < 128)
            \/ (Len(content) > 1 /\ content[1] = 255 /\ content[2] >= 128)
         THEN [err |-> <<"invalid integer">>]
         ELSE [err |-> nil,
               val |-> [t |-> "int",
                        v |-> IF content[1] >= 128
                              THEN beValue(content) - 2 ^ (8 * Len(content))
                              ELSE beValue(content)]]
    ELSE IF tag = UTF8StringTag
    THEN [err |-> nil, val |-> [t |-> "string", v |-> content]]
    ELSE IF tag \in OtherKnownTags
    THEN [err |-> nil, val |-> [t |-> "other", tag |-> tag, v |-> content]]
    ELSE [err |-> nil, val |-> NilAny]

DecodeAny(in, kind) ==
    IF in = <<>> \/ in[1] % 32 = 31
    THEN [err |-> <<"failed to unmarshal go native asn1 value">>]
    ELSE
    (CHOOSE the \in {IF l.err # nil THEN Fail("failed to unmarshal go native asn1 value", l.err) ELSE
         IF Len(in) - 1 - l.hdr < l.len
         THEN Fail("failed to unmarshal go native asn1 value", <<"data truncated">>)
         ELSE
    (CHOOSE the \in {IF d.err # nil THEN Fail("failed to unmarshal go native asn1 value", d.err) ELSE
         IF kind = "bool" /\ d.val.t # "bool"
         THEN Fail("failed to unmarshal go native asn1 value", <<"tags don't match">>)
         ELSE [err |-> nil, n |-> 1 + l.hdr + l.len, val |-> d.val]
    : d \in {derValue(in[1], SubSeq(in, 2 + l.hdr, 1 + l.hdr + l.len))}} : TRUE)
    : l \in {derLength(Tail(in))}} : TRUE)


(***************************************************************************)
(* The element decoder of package ember.  A handler takes the element it   *)
(* fills and a decoder and returns the element and the decoders it leaves. *)
(***************************************************************************)
nodeTag == 3

parameterTag == 1

valueTypeInt == 1

valueTypeReal == 2

valueTypeString == 3

valueTypeBool == 4

valueTypeEnum == 6

\* &Element{}: every field at its zero value.
NewElement ==
    [Path |-> <<>>, ElementType |-> "", Identifier |-> <<>>, Description |-> <<>>,
     Children |-> <<>>, IsOnline |-> FALSE, IsRoot |-> FALSE, Maximum |-> NilAny,
     Minimum |-> NilAny, Value |-> NilAny, Access |-> 0, Format |-> <<>>,
     Enumeration |-> <<>>, Factor |-> 0, Default |-> NilAny, ValueType |-> 0]

\* strconv.Itoa of a number that is not negative, as a string of digits.
RECURSIVE Itoa(_)
Itoa(n) == IF n < 10 THEN <<48 + n>> ELSE Itoa(n \div 10) \o <<48 + (n % 10)>>

\* strings.Join(strPath, ".") of the numbers of a path.
RECURSIVE JoinPath(_)
JoinPath(path) ==
    IF path = <<>> THEN <<>>
    ELSE IF Len(path) = 1 THEN Itoa(path[1])
    ELSE JoinPath(SubSeq(path, 1, Len(path) - 1)) \o <<Dot>> \o Itoa(path[Len(path)])

\* A variant of findWithData that returns the first decoder that holds bytes.
findWithDataFirst(decoders) ==
    IF \A i \in DOMAIN decoders : Len(decoders[i]) = 0 THEN [err |-> nil, dec |-> <<>>]
    ELSE [err |-> nil,
          dec |-> decoders[CHOOSE i \in DOMAIN decoders :
                              /\ Len(decoders[i]) > 0
                              /\ \A j \in 1..(i - 1) : Len(decoders[j]) = 0]]

findWithData(decoders) ==
    (CHOOSE the \in {
         IF Cardinality(withData) > 1
         THEN [err |-> <<"after value handling both new and original decoders have data left">>]
         ELSE IF withData = {} THEN [err |-> nil, dec |-> <<>>]
         ELSE [err |-> nil, dec |-> decoders[CHOOSE i \in withData : TRUE]]
    : withData \in {{i \in DOMAIN decoders : Len(decoders[i]) > 0}}} : TRUE)

handlePathFromUniversal(dec) ==
    (CHOOSE the \in {IF path.err # nil THEN Fail("failed to decode integer", path.err) ELSE
         [err |-> nil, path |-> JoinPath(path.out), rest |-> path.rest]
    : path \in {DecodeUniversal(dec)}} : TRUE)

getPath(decoder) ==
    IF Peek(decoder).err # nil THEN Fail("failed to peek path byte", Peek(decoder).err)
    ELSE IF Peek(decoder).b = UniversalObjectTag
    THEN (CHOOSE the \in {IF path.err # nil THEN Fail("failed to read path from universal", path.err)
              ELSE path
         : path \in {handlePathFromUniversal(decoder)}} : TRUE)
    ELSE (CHOOSE the \in {IF p.err # nil THEN Fail("failed to handle path context", p.err)
              ELSE [err |-> nil, path |-> Itoa(p.out), rest |-> p.rest]
         : p \in {DecodeInteger(decoder)}} : TRUE)

handlePath(el, decoder) ==
    (CHOOSE the \in {IF contextDec.err # nil THEN Fail("failed to context", contextDec.err) ELSE
    (CHOOSE the \in {IF path.err # nil THEN Fail("failed to get path", path.err) ELSE
    (CHOOSE the \in {IF atEnd.err # nil THEN Fail("failed to read end bytes", atEnd.err) ELSE
         IF ~atEnd.end THEN [err |-> <<"not at sequence">>]
         ELSE [err |-> nil, el |-> [el EXCEPT !.Path = path.path],
               decoders |-> <<contextDec.rest, atEnd.rest>>]
    : atEnd \in {ReadEnd(path.rest)}} : TRUE)
    : path \in {getPath(contextDec.dec)}} : TRUE)
    : contextDec \in {Read(decoder, ContextZeroTag, "ContextByte")}} : TRUE)

\* The loop of readOverElement over a value of unknown length: one byte is
\* read and the end looked for, until the end is found.
RECURSIVE readOverLoop(_)
readOverLoop(newDec) ==
    IF newDec = <<>> THEN [err |-> <<"failed to read next element bytes">>]
    ELSE (CHOOSE the \in {IF end.err # nil THEN [err |-> <<"failed to read next element end">>]
              ELSE IF end.end THEN [err |-> nil, dec |-> end.rest]
              ELSE readOverLoop(Tail(newDec))
         : end \in {ReadEnd(Tail(newDec))}} : TRUE)

readOverElement(decoder) ==
    IF Peek(decoder).err # nil THEN [err |-> <<"failed to peek next element tag">>]
    ELSE (CHOOSE the \in {IF new.err # nil THEN [err |-> <<"failed to read next element">>]
              ELSE IF ~new.unknown THEN [err |-> nil, dec |-> new.rest]
              ELSE readOverLoop(new.dec)
         : new \in {Read(decoder, Peek(decoder).b, "UniversalByte")}} : TRUE)

\* The result of a context handler: the element and the decoder to go on with.
Context(el, context) == [err |-> nil, el |-> el, context |-> context]

\* for i := 0; i < n; i++ { context.ReadByte() }
readOverUsed(el, context, n) ==
    IF n > Len(context) THEN Fail("failed to read over used bytes", ReadByte(<<>>).err)
    ELSE Context(el, SubSeq(context, n + 1, Len(context)))

\* A context that holds a UTF8 string for the field of the element.
utf8Context(el, context, field, msg) ==
    (CHOOSE the \in {IF s.err # nil THEN Fail(msg, s.err)
         ELSE Context([el EXCEPT ![field] = s.out], s.rest)
    : s \in {DecodeUTF8(context)}} : TRUE)

\* A context that holds an integer for the field of the element.
integerContext(el, context, field, msg) ==
    (CHOOSE the \in {IF i.err # nil THEN Fail(msg, i.err)
         ELSE Context([el EXCEPT ![field] = i.out], i.rest)
    : i \in {DecodeInteger(context)}} : TRUE)

\* A context decoded with DecodeAny into a bool field or a field of type any.
anyContext(el, context, field, kind, msg) ==
    (CHOOSE the \in {IF a.err # nil THEN Fail(msg, a.err)
         ELSE readOverUsed([el EXCEPT ![field] = IF kind = "bool" THEN a.val.v ELSE a.val],
                           context, a.n)
    : a \in {DecodeAny(context, kind)}} : TRUE)

\* A context that is skipped.
skippedContext(el, context) ==
    (CHOOSE the \in {IF over.err # nil THEN Fail("failed to skip element", over.err)
         ELSE Context(el, over.dec)
    : over \in {readOverElement(context)}} : TRUE)

handleFunctionContext(el, context, tag) ==
    (CHOOSE the \in {IF case = ContextByte(0)
         THEN utf8Context(el, context, "Identifier", "failed to decode identifier")
         ELSE IF case = ContextByte(1)
         THEN utf8Context(el, context, "Description", "failed to decode description")
         ELSE IF case \in {ContextByte(2), ContextByte(3)} THEN skippedContext(el, context)
         ELSE Context(el, context)
    : case \in {ContextByte(tag)}} : TRUE)

\* A variant of handleNodeContext that reads no context.
handleNodeContextUnread(el, context, tag) == Context(el, <<>>)

handleNodeContext(el, context, tag) ==
    (CHOOSE the \in {IF case = ContextByte(0)
         THEN utf8Context(el, context, "Identifier", "failed to decode identifier")
         ELSE IF case = ContextByte(1)
         THEN utf8Context(el, context, "Description", "failed to decode description")
         ELSE IF case = ContextByte(2)
         THEN anyContext(el, context, "IsRoot", "bool", "failed to decode is root")
         ELSE IF case = ContextByte(3)
         THEN anyContext(el, context, "IsOnline", "bool", "failed to decode is online")
         ELSE IF case \in {ContextByte(4), ContextByte(5)} THEN skippedContext(el, context)
         ELSE Context(el, context)
    : case \in {ContextByte(tag)}} : TRUE)

\* out is the value and n the number of bytes DecodeAny used; rest is the
\* decoder context after the call.
setValue(el, context) ==
    IF el.ValueType \in {valueTypeInt, valueTypeEnum}
    THEN (CHOOSE the \in {IF i.err # nil THEN [err |-> <<"failed to decode integer value">>]
              ELSE [err |-> nil, out |-> [t |-> "int", v |-> i.out], n |-> 0,
                    rest |-> i.rest]
         : i \in {DecodeInteger(context)}} : TRUE)
    ELSE IF el.ValueType = valueTypeString
    THEN (CHOOSE the \in {IF s.err # nil THEN [err |-> <<"failed to decode string value">>]
              ELSE [err |-> nil, out |-> [t |-> "string", v |-> s.out], n |-> 0,
                    rest |-> s.rest]
         : s \in {DecodeUTF8(context)}} : TRUE)
    ELSE (CHOOSE the \in {IF a.err # nil THEN Fail("failed to decode value of type", a.err)
              ELSE [err |-> nil, out |-> a.val, n |-> a.n, rest |-> context]
         : a \in {DecodeAny(context, IF el.ValueType = valueTypeBool THEN "bool" ELSE "any")}} : TRUE)

\* A variant of setDefaultElementValue that sets no value.
setDefaultElementValueNone(el) == el

setDefaultElementValue(el) ==
    IF el.Value # NilAny THEN el
    ELSE IF el.ValueType \in {valueTypeInt, valueTypeReal}
    THEN [el EXCEPT !.Value = [t |-> "int", v |-> 0]]
    ELSE IF el.ValueType = valueTypeString
    THEN [el EXCEPT !.Value = [t |-> "string", v |-> <<>>]]
    ELSE IF el.ValueType = valueTypeBool
    THEN [el EXCEPT !.Value = [t |-> "bool", v |-> FALSE]]
    ELSE el

\* case ContextByte(2) of handleParameterContext.
valueContext(el, context) ==
    (CHOOSE the \in {IF value.err # nil THEN Fail("failed to decode parameter value", value.err)
         ELSE readOverUsed([el EXCEPT !.Value = value.out], value.rest, value.n)
    : value \in {setValue(el, context)}} : TRUE)

\* The switch of handleParameterContext.
parameterCase(el, context, tag) ==
    (CHOOSE the \in {IF case = ContextByte(0)
         THEN utf8Context(el, context, "Identifier", "failed to decode identifier")
         ELSE IF case = ContextByte(1)
         THEN utf8Context(el, context, "Description", "failed to decode description")
         ELSE IF case = ContextByte(2) THEN valueContext(el, context)
         ELSE IF case = ContextByte(3)
         THEN anyContext(el, context, "Minimum", "any", "failed to decode is min")
         ELSE IF case = ContextByte(4)
         THEN anyContext(el, context, "Maximum", "any", "failed to decode is max")
         ELSE IF case = ContextByte(5)
         THEN integerContext(el, context, "Access", "failed to decode is access")
         ELSE IF case = ContextByte(6)
         THEN utf8Context(el, context, "Format", "failed to decode format")
         ELSE IF case = ContextByte(7)
         THEN utf8Context(el, context, "Enumeration", "failed to decode enumeration")
         ELSE IF case = ContextByte(8)
         THEN integerContext(el, context, "Factor", "failed to decode is factor")
         ELSE IF case = ContextByte(9)
         THEN anyContext(el, context, "IsOnline", "bool", "failed to decode is online")
         ELSE IF case = ContextByte(12)
         THEN anyContext(el, context, "Default", "any", "failed to decode default value")
         ELSE IF case = ContextByte(13)
         THEN integerContext(el, context, "ValueType", "failed to decode default value")
         ELSE IF case \in {ContextByte(10), ContextByte(11), ContextByte(14), ContextByte(15),
                           ContextByte(16), ContextByte(17), ContextByte(18)}
         THEN skippedContext(el, context)
         ELSE Context(el, context)
    : case \in {ContextByte(tag)}} : TRUE)

\* The switch, then setDefaultElementValue; the bytes DecodeAny used are read
\* over by the case that used them.
handleParameterContext(el, context, tag) ==
    (CHOOSE the \in {IF case.err # nil THEN case
         ELSE Context(setDefaultElementValue(case.el), case.context)
    : case \in {parameterCase(el, context, tag)}} : TRUE)

\* The switch of handleContentContext on the element type.
contextOfType(el, context, t) ==
    IF el.ElementType \in {QualifiedParameterType, ParameterType}
    THEN (CHOOSE the \in {IF r.err # nil THEN Fail("failed to decode parameter context", r.err) ELSE r
         : r \in {handleParameterContext(el, context, t)}} : TRUE)
    ELSE IF el.ElementType \in {NodeType, QualifiedNodeType}
    THEN (CHOOSE the \in {IF r.err # nil THEN Fail("failed to decode node context", r.err) ELSE r
         : r \in {handleNodeContext(el, context, t)}} : TRUE)
    ELSE IF el.ElementType = FunctionType
    THEN (CHOOSE the \in {IF r.err # nil THEN Fail("failed to decode function context", r.err) ELSE r
         : r \in {handleFunctionContext(el, context, t)}} : TRUE)
    ELSE Context(el, context)

handleContentContext(el, decoder) ==
    (CHOOSE the \in {IF t.err # nil THEN Fail("failed to peek context byte", t.err) ELSE
    (CHOOSE the \in {IF context.err # nil THEN Fail("failed to read context", context.err) ELSE
    (CHOOSE the \in {IF handled.err # nil THEN handled ELSE
         [err |-> nil, el |-> handled.el, decoders |-> <<context.rest, handled.context>>]
    : handled \in {contextOfType(el, context.dec, t.b)}} : TRUE)
    : context \in {Read(decoder, t.b, "ContextByte")}} : TRUE)
    : t \in {Peek(decoder)}} : TRUE)

\* One pass of the loop of handleContent: the element, the decoder set the
\* pass leaves and whether it is at its end.

contentPass(el, set) ==
    (CHOOSE the \in {IF handled.err # nil THEN Fail("failed to handle content", handled.err) ELSE
    (CHOOSE the \in {IF found.err # nil THEN Fail("failed to find the decoder to continue reading", found.err) ELSE
    (CHOOSE the \in {IF end.err # nil THEN Fail("failed to read sequence end", end.err) ELSE
         [err |-> nil, el |-> handled.el, set |-> end.rest, end |-> end.end]
    : end \in {ReadEnd(found.dec)}} : TRUE)
    : found \in {findWithData(handled.decoders)}} : TRUE)
    : handled \in {handleContentContext(el, set)}} : TRUE)

\* The loop of handleContent: the element and the decoder set it ends with.
RECURSIVE handleContentLoop(_, _)

handleContentLoop(el, set) ==
    (CHOOSE the \in {IF pass.err # nil THEN pass ELSE
         IF pass.end THEN pass ELSE handleContentLoop(pass.el, pass.set)
    : pass \in {contentPass(el, set)}} : TRUE)

\* The reads handleContent starts with: the context and the set in it.

contentHead(decoder) ==
    (CHOOSE the \in {IF content.err # nil THEN Fail("failed to read context", content.err) ELSE
    (CHOOSE the \in {IF set.err # nil THEN Fail("failed to read set", set.err) ELSE
         [err |-> nil, decoder |-> content.rest, content |-> set.rest, set |-> set.dec]
    : set \in {Read(content.dec, SetTag, "UniversalByte")}} : TRUE)
    : content \in {Read(decoder, ContextTagOne, "ContextByte")}} : TRUE)

handleContent(el, decoder) ==
    (CHOOSE the \in {IF head.err # nil THEN head ELSE
    (CHOOSE the \in {IF loop.err # nil THEN loop ELSE
         [err |-> nil, el |-> loop.el, decoders |-> <<head.decoder, head.content, loop.set>>]
    : loop \in {handleContentLoop(el, head.set)}} : TRUE)
    : head \in {contentHead(decoder)}} : TRUE)

RECURSIVE getElement(_)

setChild(el, childrenDecoder) ==
    (CHOOSE the \in {IF allChild.err # nil THEN Fail("failed to read next child element", allChild.err) ELSE
    (CHOOSE the \in {IF child.err # nil THEN Fail("failed to decode next child element", child.err) ELSE
         [err |-> nil, el |-> [el EXCEPT !.Children = Append(@, child.el)],
          decoders |-> <<allChild.rest, child.rest, child.decoder>>]
    : child \in {getElement(allChild.dec)}} : TRUE)
    : allChild \in {Read(childrenDecoder, ContextByte(ContextZeroTag), "ContextByte")}} : TRUE)

\* One pass of the loop of handleChildren: the element, the decoder childDec
\* the pass leaves and whether all children are read.

childrenPass(el, childDec) ==
    (CHOOSE the \in {IF set.err # nil THEN Fail("failed to set child element", set.err) ELSE
    (CHOOSE the \in {IF found.err # nil THEN Fail("failed to find the decoder to continue reading", found.err) ELSE
    (CHOOSE the \in {IF contextEnd.err # nil THEN Fail("failed to decode child context end", contextEnd.err) ELSE
    (CHOOSE the \in {IF sequenceEnd.err # nil THEN Fail("failed to decode current child sequence end", sequenceEnd.err) ELSE
    (CHOOSE the \in {IF end.err # nil THEN Fail("failed to decode child element sequence end", end.err) ELSE
         [err |-> nil, el |-> set.el, childDec |-> end.rest, end |-> end.end]
    : end \in {ReadEnd(sequenceEnd.rest)}} : TRUE)
    : sequenceEnd \in {ReadEnd(contextEnd.rest)}} : TRUE)
    : contextEnd \in {ReadEnd(found.dec)}} : TRUE)
    : found \in {findWithData(set.decoders)}} : TRUE)
    : set \in {setChild(el, childDec)}} : TRUE)

\* The loop of handleChildren: the element and the decoder childDec it ends
\* with.
RECURSIVE handleChildrenLoop(_, _)

handleChildrenLoop(el, childDec) ==
    (CHOOSE the \in {IF pass.err # nil THEN pass ELSE
         IF pass.end THEN pass ELSE handleChildrenLoop(pass.el, pass.childDec)
    : pass \in {childrenPass(el, childDec)}} : TRUE)

\* The reads handleChildren starts with: the context and the collection of
\* children in it.

childrenHead(decoder) ==
    (CHOOSE the \in {IF anyDec.err # nil THEN Fail("failed to read child context", anyDec.err) ELSE
    (CHOOSE the \in {IF childDec.err # nil THEN Fail("failed to get children elements", childDec.err) ELSE
         [err |-> nil, decoder |-> anyDec.rest, anyDec |-> childDec.rest, childDec |-> childDec.dec]
    : childDec \in {Read(anyDec.dec, ApplicationByte(ElementCollectionTag), "ApplicationByte")}} : TRUE)
    : anyDec \in {Read(decoder, ContextByte(ContextTagTwo), "ContextByte")}} : TRUE)

handleChildren(el, decoder) ==
    (CHOOSE the \in {IF head.err # nil THEN head ELSE
    (CHOOSE the \in {IF loop.err # nil THEN loop ELSE
         [err |-> nil, el |-> loop.el,
          decoders |-> <<head.decoder, head.anyDec, loop.childDec>>]
    : loop \in {handleChildrenLoop(el, head.childDec)}} : TRUE)
    : head \in {childrenHead(decoder)}} : TRUE)

\* The switch of handleApplication on the context tag t that Peek gave; a
\* tag that no case takes leaves no decoder.
applicationCase(el, decoder, t) ==
    IF t.err # nil THEN Fail("failed to peek context", t.err)
    ELSE IF ContextByte(t.b) = ContextByte(ContextZeroTag)
    THEN (CHOOSE the \in {IF r.err # nil THEN Fail("failed to read path", r.err) ELSE r
         : r \in {handlePath(el, decoder)}} : TRUE)
    ELSE IF ContextByte(t.b) = ContextByte(ContextTagOne)
    THEN (CHOOSE the \in {IF r.err # nil THEN Fail("failed to read content", r.err) ELSE r
         : r \in {handleContent(el, decoder)}} : TRUE)
    ELSE IF ContextByte(t.b) = ContextByte(ContextTagTwo)
    THEN (CHOOSE the \in {IF r.err # nil THEN Fail("failed to read children", r.err) ELSE r
         : r \in {handleChildren(el, decoder)}} : TRUE)
    ELSE [err |-> nil, el |-> el, decoders |-> <<>>]

\* One pass of the loop of handleApplication: the element, the decoder the
\* pass leaves and whether it is at its end.

applicationPass(el, decoder) ==
    (CHOOSE the \in {IF handled.err # nil THEN handled ELSE
    (CHOOSE the \in {IF found.err # nil THEN Fail("failed to find the decoder to continue reading", found.err) ELSE
    (CHOOSE the \in {IF atEnd.err # nil THEN Fail("failed to read end bytes", atEnd.err) ELSE
         [err |-> nil, el |-> handled.el, decoder |-> atEnd.rest, atEnd |-> atEnd.end]
    : atEnd \in {ReadEnd(found.dec)}} : TRUE)
    : found \in {findWithData(handled.decoders)}} : TRUE)
    : handled \in {applicationCase(el, decoder, Peek(decoder))}} : TRUE)

\* The loop of handleApplication: the element and the decoder it returns.
RECURSIVE handleApplication(_, _)

handleApplication(el, decoder) ==
    (CHOOSE the \in {IF pass.err # nil THEN pass ELSE
         IF pass.atEnd THEN pass ELSE handleApplication(pass.el, pass.decoder)
    : pass \in {applicationPass(el, decoder)}} : TRUE)

\* A variant of applicationType that takes every tag for a node.
applicationTypeAny(t) == NodeType

\* The element type of the application tag t, "" when it is not known.
applicationType(t) ==
    (CHOOSE the \in {IF case = ApplicationByte(QualifiedNodeTag) THEN QualifiedNodeType
         ELSE IF case = ApplicationByte(QualifiedParameterTag) THEN QualifiedParameterType
         ELSE IF case = ApplicationByte(nodeTag) THEN NodeType
         ELSE IF case = ApplicationByte(parameterTag) THEN ParameterType
         ELSE IF case = ApplicationByte(functionTag) THEN FunctionType
         ELSE ""
    : case \in {ApplicationByte(t)}} : TRUE)

\* What getElement does before handleApplication: the type of the element,
\* its decoder, and rest, what the decoder d still holds.

elementHead(d) ==
    (CHOOSE the \in {IF t.err # nil THEN Fail("failed to read context", t.err) ELSE
    (CHOOSE the \in {IF decoder.err # nil THEN Fail("failed to read element application", decoder.err) ELSE
         IF applicationType(t.b) = "" THEN [err |-> <<"unknown type">>]
         ELSE [err |-> nil, type |-> applicationType(t.b), decoder |-> decoder.dec,
               rest |-> decoder.rest]
    : decoder \in {Read(d, t.b, "ApplicationByte")}} : TRUE)
    : t \in {Peek(d)}} : TRUE)

\* decoder is the decoder returned; rest is what the decoder d given to
\* getElement still holds.

getElement(d) ==
    (CHOOSE the \in {IF head.err # nil THEN head ELSE
    (CHOOSE the \in {IF handled.err # nil THEN Fail("failed to handle application", handled.err) ELSE
         [err |-> nil, el |-> handled.el, decoder |-> handled.decoder, rest |-> head.rest]
    : handled \in {handleApplication([NewElement EXCEPT !.ElementType = head.type], head.decoder)}} : TRUE)
    : head \in {elementHead(d)}} : TRUE)


(***************************************************************************)
(* The element collection: a map from (ID, Path) keys to elements, here a  *)
(* function on the keys it holds.                                          *)
(***************************************************************************)
ErrElementNotFound == <<"element not found">>

ElementKey(el) == [ID |-> el.Identifier, Path |-> el.Path]

NewElementCollection == [key \in {} |-> NewElement]

\* ec[ElementKey{ID: el.Identifier, Path: el.Path}] = el
PutElement(ec, el) ==
    [key \in DOMAIN ec \cup {ElementKey(el)} |->
        IF key = ElementKey(el) THEN el ELSE ec[key]]

\* if err != nil { return fmt.Errorf(msg, err) } in Populate, where the
\* collection keeps what was put into it.
FailPopulate(msg, err, ec) == [err |-> Wrap(msg, err), ec |-> ec]

\* The decoder app11Codec after an element was read: what the decoder of the
\* element still holds is put in front of it.
remaining(decoder, app11Codec) ==
    IF Len(decoder) > 0 THEN decoder \o app11Codec ELSE app11Codec

\* One pass of the loop of Populate: the collection with the element put
\* into it, the decoder app11Codec the pass leaves and whether every element
\* is read.

populatePass(ec, app11Codec) ==
    (CHOOSE the \in {IF context0.err # nil THEN FailPopulate("failed to read top level context 0", context0.err, ec) ELSE
    (CHOOSE the \in {IF element.err # nil THEN FailPopulate("failed to read element", element.err, ec) ELSE
    (CHOOSE the \in {IF put.err # nil THEN put ELSE
    (CHOOSE the \in {IF contextEnd.err # nil THEN FailPopulate("failed to decode context end", contextEnd.err, put.ec) ELSE
    (CHOOSE the \in {IF elementsEnd.err # nil THEN FailPopulate("failed to decode current sequence end", elementsEnd.err, put.ec) ELSE
    (CHOOSE the \in {IF end.err # nil THEN FailPopulate("failed to decode element sequence end", end.err, put.ec) ELSE
         [err |-> nil, ec |-> put.ec, app11Codec |-> end.rest, end |-> end.end]
    : end \in {ReadEnd(remaining(elementsEnd.rest, context0.rest))}} : TRUE)
    : elementsEnd \in {ReadEnd(contextEnd.rest)}} : TRUE)
    : contextEnd \in {ReadEnd(element.decoder)}} : TRUE)
    : put \in {[err |-> nil, ec |-> PutElement(ec, element.el)]}} : TRUE)
    : element \in {getElement(context0.dec)}} : TRUE)
    : context0 \in {Read(app11Codec, ContextZeroTag, "ContextByte")}} : TRUE)

\* The loop of Populate.  app11Codec holds the elements still to read.
RECURSIVE populateLoop(_, _)

populateLoop(ec, app11Codec) ==
    (CHOOSE the \in {IF pass.err # nil THEN pass ELSE
         IF pass.end THEN pass ELSE populateLoop(pass.ec, pass.app11Codec)
    : pass \in {populatePass(ec, app11Codec)}} : TRUE)

\* The reads Populate starts with: the root collection and the elements in
\* it.

populateHead(ec, data) ==
    (CHOOSE the \in {IF app0Codec.err # nil THEN FailPopulate("failed to read element root collection tag", app0Codec.err, ec) ELSE
    (CHOOSE the \in {IF app11Codec.err # nil THEN FailPopulate("failed to read element tag", app11Codec.err, ec) ELSE
         [err |-> nil, app0Codec |-> app11Codec.rest, app11Codec |-> app11Codec.dec]
    : app11Codec \in {Read(app0Codec.dec, RootElementTag, "ApplicationByte")}} : TRUE)
    : app0Codec \in {Read(data, RootElementCollectionTag, "ApplicationByte")}} : TRUE)

Populate(ec, data) ==
    (CHOOSE the \in {IF head.err # nil THEN head ELSE
    (CHOOSE the \in {IF loop.err # nil THEN loop ELSE
    (CHOOSE the \in {IF end.err # nil THEN FailPopulate("failed to read sequence end of application 0 (the whole payload)", end.err, loop.ec) ELSE
         IF ~end.end
         THEN [err |-> <<"main application decoder still has data remaining">>, ec |-> loop.ec]
         ELSE [err |-> nil, ec |-> loop.ec]
    : end \in {ReadEnd(head.app0Codec)}} : TRUE)
    : loop \in {populateLoop(ec, head.app11Codec)}} : TRUE)
    : head \in {populateHead(ec, data)}} : TRUE)

\* A variant of GetElementByPath that looks at the keys only.
GetElementByPathKeysOnly(ec, currentPath) ==
    IF \E key \in DOMAIN ec : key.Path = currentPath
    THEN {[err |-> nil, el |-> ec[key]] : key \in {k \in DOMAIN ec : k.Path = currentPath}}
    ELSE {[err |-> Wrap("failed to find element with path", ErrElementNotFound)]}

\* The children of the element of a key whose path, joined to the path of
\* the key, is currentPath.
childMatches(ec, key, currentPath) ==
    {i \in DOMAIN ec[key].Children :
        key.Path \o <<Dot>> \o ec[key].Children[i].Path = currentPath}

\* What the body of the loop of GetElementByPath returns for one key: the
\* element of the key, its first child with the path, or nothing.
pathMatch(ec, key, currentPath) ==
    IF key.Path = currentPath THEN <<ec[key]>>
    ELSE (CHOOSE the \in {IF found = {} THEN <<>>
              ELSE <<ec[key].Children[CHOOSE i \in found : \A j \in found : i <= j]>>
         : found \in {childMatches(ec, key, currentPath)}} : TRUE)

\* The map is ranged over in an order that is not determined: the set of
\* the results the call can give.
GetElementByPath(ec, currentPath) ==
    IF \A key \in DOMAIN ec : pathMatch(ec, key, currentPath) = <<>>
    THEN {[err |-> Wrap("failed to find element with path", ErrElementNotFound)]}
    ELSE {[err |-> nil, el |-> pathMatch(ec, key, currentPath)[1]] :
             key \in {k \in DOMAIN ec : pathMatch(ec, k, currentPath) # <<>>}}


(***************************************************************************)
(* The inputs of the S101 scenario.                                        *)
(***************************************************************************)
PayloadBytes == {1, 248, 253, 254, 255}

RawBytes == {65, ce, bof, eof}

PacketTypes == {SinglePacket, FirstMultiPacket, BodyMultiPacket, LastMultiPacket}

SeqsUpTo(S, n) == UNION {[1..k -> S] : k \in 0..n}

\* Element types and path strings given to GetRequestByType:
\* "", "1", "0.2", "1.", "x".
RequestTypes == {ParameterType, QualifiedParameterType, NodeType, QualifiedNodeType,
                 FunctionType, "matrix"}

RequestPaths == {<<>>, <<49>>, <<48, Dot, 50>>, <<49, Dot>>, <<120>>}

\* Streams read from a connection that hold a frame not well formed: a frame
\* of BOF and EOF alone after or before the frames Encode writes, a frame
\* whose bytes before the CRC end with the escape byte, and a frame of 13
\* bytes with an escape byte in its header before a frame of BOF and EOF.
ShortFrame == <<bof, eof>>

TailEscapeFrames ==
    {<<bof>> \o s101Info(SinglePacket) \o body \o <<ce>> \o check \o <<eof>> :
        body \in {<<>>, <<1>>, <<1, ce, 216>>}, check \in {<<0, 0>>, <<1, 2>>}}

EscapedHeaderFrame ==
    <<bof, ce, slot, messageType, commandType, version, SinglePacket, dtdType, appBytes,
      minorVersion, 0, 0, eof>>

CraftedStreams ==
    {Encode(msg, pType) \o ShortFrame : msg \in {<<>>, <<1>>}, pType \in PacketTypes}
    \cup {ShortFrame \o Encode(msg, SinglePacket) : msg \in {<<>>, <<1>>}}
    \cup TailEscapeFrames
    \cup {f \o ShortFrame : f \in TailEscapeFrames}
    \cup {EscapedHeaderFrame \o ShortFrame, EscapedHeaderFrame}

NoResume == [cut |-> 0, first |-> GetS101s(<<>>), second |-> GetS101s(<<>>)]

\* The locals of the createS101 calls of Encode(msg, pType).
EncodeCRCs(msg, pType) ==
    IF pType = FirstMultiPacket
    THEN <<getCRCValue(s101Info(pType) \o msg), getCRCValue(s101Info(LastMultiPacket))>>
    ELSE <<getCRCValue(s101Info(pType) \o msg)>>

(***************************************************************************)
(* The S101 scenario: a payload is encoded (by Encode directly or by a     *)
(* request function) or raw bytes arrive; the stream is split into frames, *)
(* in one read or in two; the frames are decoded.                          *)
(***************************************************************************)
S101Init ==
    /\ pc = "start"
    /\ message = <<>>
    /\ packetType = 0
    /\ wire = <<>>
    /\ escaped = <<>>
    /\ crc = <<>>
    /\ s101s = <<>>
    /\ incompleteData = <<>>
    /\ getErr = "nil"
    /\ resumed = NoResume
    /\ out = <<>>
    /\ lastPacketType = 0
    /\ decErr = "nil"
    /\ reqErr = "nil"

DoEncode(msg, pType) ==
    /\ pc = "start"
    /\ message' = msg
    /\ packetType' = pType
    /\ wire' = Encode(msg, pType)
    /\ escaped' = escapeBytesAboveBOFNE(msg)
    /\ crc' = EncodeCRCs(msg, pType)
    /\ pc' = "encoded"
    /\ UNCHANGED <<embervars, asn1vars, clientvars, connvars>>
    /\ UNCHANGED <<s101s, incompleteData, getErr, resumed, out, lastPacketType,
                   decErr, reqErr>>

DoGetRootRequest ==
    /\ pc = "start"
    /\ message' = GetRootRequest.glow
    /\ packetType' = GetRootRequest.pType
    /\ wire' = GetRootRequest.bytes
    /\ reqErr' = GetRootRequest.err
    /\ escaped' = escapeBytesAboveBOFNE(GetRootRequest.glow)
    /\ crc' = EncodeCRCs(GetRootRequest.glow, GetRootRequest.pType)
    /\ pc' = "requested"
    /\ UNCHANGED <<embervars, asn1vars, clientvars, connvars>>
    /\ UNCHANGED <<s101s, incompleteData, getErr, resumed, out, lastPacketType, decErr>>

DoGetRequestByType(et, path) ==
    /\ pc = "start"
    /\ \E r \in {GetRequestByType(et, path)} :
          /\ message' = r.glow
          /\ packetType' = r.pType
          /\ wire' = r.bytes
          /\ reqErr' = r.err
          /\ escaped' = IF r.err = "nil" THEN escapeBytesAboveBOFNE(r.glow) ELSE <<>>
          /\ crc' = IF r.err = "nil" THEN EncodeCRCs(r.glow, r.pType) ELSE <<>>
          /\ pc' = IF r.err = "nil" THEN "requested" ELSE "failed"
    /\ UNCHANGED <<embervars, asn1vars, clientvars, connvars>>
    /\ UNCHANGED <<s101s, incompleteData, getErr, resumed, out, lastPacketType, decErr>>

\* Bytes read from a connection.
DoRead(raw) ==
    /\ pc = "start"
    /\ wire' = raw
    /\ pc' = "read"
    /\ UNCHANGED <<embervars, asn1vars, clientvars, connvars>>
    /\ UNCHANGED <<message, packetType, escaped, crc, s101s, incompleteData, getErr,
                   resumed, out, lastPacketType, decErr, reqErr>>

DoGetS101s ==
    /\ pc \in {"encoded", "requested", "read"}
    /\ \E r \in {GetS101s(wire)} :
          /\ s101s' = r.s101s
          /\ incompleteData' = r.incompleteData
          /\ getErr' = r.err
    /\ pc' = "split"
    /\ UNCHANGED <<embervars, asn1vars, clientvars, connvars>>
    /\ UNCHANGED <<message, packetType, escaped, crc, wire, resumed, out,
                   lastPacketType, decErr, reqErr>>

\* The stream arrives in two reads, cut after byte k: the second call gets the
\* incomplete data of the first put before the rest, as the receive loop does.
DoGetS101sResumed(k) ==
    /\ pc \in {"encoded", "requested", "read"}
    /\ k \in 1..(Len(wire) - 1)
    /\ \E first \in {GetS101s(SubSeq(wire, 1, k))} :
          resumed' = [cut |-> k, first |-> first,
                      second |-> GetS101s(first.incompleteData
                                          \o SubSeq(wire, k + 1, Len(wire)))]
    /\ pc' = "resumed"
    /\ UNCHANGED <<embervars, asn1vars, clientvars, connvars>>
    /\ UNCHANGED <<message, packetType, escaped, crc, wire, s101s, incompleteData,
                   getErr, out, lastPacketType, decErr, reqErr>>

DoDecode ==
    /\ pc = "split"
    /\ getErr = "nil"
    /\ \E r \in {Decode(s101s)} :
          /\ out' = r.out
          /\ lastPacketType' = r.lastPacketType
          /\ decErr' = r.err
    /\ pc' = "decoded"
    /\ UNCHANGED <<embervars, asn1vars, clientvars, connvars>>
    /\ UNCHANGED <<message, packetType, escaped, crc, wire, s101s, incompleteData,
                   getErr, resumed, reqErr>>

Next ==
    \/ \E msg \in SeqsUpTo(PayloadBytes, MaxLen), pType \in PacketTypes : DoEncode(msg, pType)
    \/ DoGetRootRequest
    \/ \E et \in RequestTypes, path \in RequestPaths : DoGetRequestByType(et, path)
    \/ \E raw \in SeqsUpTo(RawBytes, MaxRaw) : DoRead(raw)
    \/ pc = "start" /\ \E raw \in CraftedStreams : DoRead(raw)
    \/ DoGetS101s
    \/ \E k \in 1..(Len(wire) - 1) : DoGetS101sResumed(k)
    \/ DoDecode

(***************************************************************************)
(* The payloads given to Populate: the provider response of the decoder    *)
(* test and the encodings of small element trees.                          *)
(***************************************************************************)
validApplication ==
    <<96, 52, 107, 50, 160, 48, 99, 46, 160, 3, 2, 1, 1, 161, 39, 49,
      37, 160, 22, 12, 20, 82, 51, 76, 65, 89, 86, 105, 114, 116, 117, 97,
      108, 80, 97, 116, 99, 104, 66, 97, 121, 161, 2, 12, 0, 164, 2, 12,
      0, 163, 3, 1, 1, 255>>

R3LAYVirtualPatchBay ==
    <<82, 51, 76, 65, 89, 86, 105, 114, 116, 117, 97, 108, 80, 97, 116, 99, 104, 66, 97, 121>>

\* A provider's tree: a node carries its number, a qualified node its whole
\* path; ident is the identifier, empty when the element has no content.
Tree(kind, path, ident, children) ==
    [kind |-> kind, path |-> path, ident |-> ident, children |-> children]

TreeHeads ==
    {<<NodeType, <<1>>>>, <<NodeType, <<2>>>>, <<QualifiedNodeType, <<1, 2>>>>,
     <<QualifiedNodeType, <<2>>>>}

\* The elements that have no children, and those that have up to MaxChildren
\* of them.
Leaves == {Tree(h[1], h[2], <<>>, <<>>) : h \in TreeHeads}

Parents ==
    {Tree(h[1], h[2], <<>>, cs) :
        h \in TreeHeads, cs \in UNION {[1..n -> Leaves] : n \in 0..MaxChildren}}

\* Two children with the same number and different identifiers.
TwinTree ==
    Tree(NodeType, <<1>>, <<>>,
         <<Tree(NodeType, <<2>>, <<65>>, <<>>), Tree(NodeType, <<2>>, <<66>>, <<>>)>>)

\* A child that has a child of its own.
DeepTree ==
    Tree(NodeType, <<1>>, <<>>,
         <<Tree(NodeType, <<2>>, <<>>, <<Tree(NodeType, <<3>>, <<67>>, <<>>)>>)>>)

\* The lists of top-level elements: one element, or two of them.
RootLists ==
    {<<t>> : t \in Parents \cup {TwinTree, DeepTree}}
        \cup {<<t, u>> : t \in Parents, u \in Leaves}

\* The BER encoding of a tree, every length in the short definite form.
TLV(tag, content) == <<tag, Len(content)>> \o content

RECURSIVE EncodeTree(_)

\* The elements of ts from the one at i on, each in its context 0.
RECURSIVE EncodeSeq(_, _)
EncodeSeq(ts, i) ==
    IF i > Len(ts) THEN <<>>
    ELSE TLV(ContextByte(ContextZeroTag), EncodeTree(ts[i])) \o EncodeSeq(ts, i + 1)

EncodeTree(t) ==
    TLV(ApplicationByte(IF t.kind = NodeType THEN nodeTag ELSE QualifiedNodeTag),
        TLV(ContextByte(ContextZeroTag),
            IF t.kind = NodeType THEN TLV(emberIntTag, t.path)
            ELSE TLV(UniversalObjectTag, t.path))
        \o (IF t.ident = <<>> THEN <<>>
            ELSE TLV(ContextByte(ContextTagOne),
                     TLV(SetTag, TLV(ContextByte(ContextZeroTag),
                                     TLV(UTF8StringTag, t.ident)))))
        \o (IF t.children = <<>> THEN <<>>
            ELSE TLV(ContextByte(ContextTagTwo),
                     TLV(ApplicationByte(ElementCollectionTag),
                         EncodeSeq(t.children, 1)))))

EncodeRoots(ts) ==
    TLV(ApplicationByte(RootElementCollectionTag),
        TLV(ApplicationByte(RootElementTag), EncodeSeq(ts, 1)))

\* A provider's parameter: its kind, its number and the fields of its
\* content in the order they are sent.  A field is the number of its context
\* and the value the context holds.
ValueTypes == {valueTypeInt, valueTypeReal, valueTypeString, valueTypeBool, valueTypeEnum}

IdentifierField == [ctx |-> 0, body |-> TLV(UTF8StringTag, <<80>>)]

ValueFields ==
    {[ctx |-> 2, body |-> body] :
        body \in {TLV(emberIntTag, <<5>>), TLV(UTF8StringTag, <<66>>), TLV(1, <<255>>)}}

ValueTypeFields == {[ctx |-> 13, body |-> TLV(emberIntTag, <<t>>)] : t \in ValueTypes}

\* Up to three fields, no two of them of the same context.
FieldLists ==
    {fields \in SeqsUpTo({IdentifierField} \cup ValueFields \cup ValueTypeFields, 3) :
        \A i, j \in 1..Len(fields) : i < j => fields[i].ctx # fields[j].ctx}

ParameterInputs ==
    {[kind |-> kind, path |-> <<1>>, fields |-> fields] :
        kind \in {ParameterType, QualifiedParameterType}, fields \in FieldLists}

RECURSIVE EncodeFields(_, _)
EncodeFields(fields, i) ==
    IF i > Len(fields) THEN <<>>
    ELSE TLV(ContextByte(fields[i].ctx), fields[i].body) \o EncodeFields(fields, i + 1)

EncodeParameter(p) ==
    TLV(ApplicationByte(IF p.kind = ParameterType THEN parameterTag
                        ELSE QualifiedParameterTag),
        TLV(ContextByte(ContextZeroTag),
            IF p.kind = ParameterType THEN TLV(emberIntTag, p.path)
            ELSE TLV(UniversalObjectTag, p.path))
        \o (IF p.fields = <<>> THEN <<>>
            ELSE TLV(ContextByte(ContextTagOne),
                     TLV(SetTag, EncodeFields(p.fields, 1)))))

\* The payload that holds the parameter at the top level, or as the one child
\* of the node 1.
ParameterPayload(p, below) ==
    TLV(ApplicationByte(RootElementCollectionTag),
        TLV(ApplicationByte(RootElementTag),
            TLV(ContextByte(ContextZeroTag),
                IF ~below THEN EncodeParameter(p)
                ELSE TLV(ApplicationByte(nodeTag),
                         TLV(ContextByte(ContextZeroTag), TLV(emberIntTag, <<1>>))
                         \o TLV(ContextByte(ContextTagTwo),
                                TLV(ApplicationByte(ElementCollectionTag),
                                    TLV(ContextByte(ContextZeroTag),
                                        EncodeParameter(p))))))))

NoParameter == [p |-> [kind |-> "", path |-> <<>>, fields |-> <<>>], below |-> FALSE]

Payloads == {validApplication} \cup {EncodeRoots(ts) : ts \in RootLists}

\* A container in one of the two forms of BER: the definite form, or the
\* indefinite form closed by two zero bytes.
Block(open, tag, content) ==
    IF open THEN <<tag, contextByte>> \o content \o <<closingByte, closingByte>>
    ELSE TLV(tag, content)

RECURSIVE EncodeTreeIn(_, _)

RECURSIVE EncodeSeqIn(_, _, _)
EncodeSeqIn(open, ts, i) ==
    IF i > Len(ts) THEN <<>>
    ELSE Block(open, ContextByte(ContextZeroTag), EncodeTreeIn(open, ts[i]))
         \o EncodeSeqIn(open, ts, i + 1)

\* The encoding of a tree with every container in the same form; the
\* integers and strings are in the definite form.
EncodeTreeIn(open, t) ==
    Block(open, ApplicationByte(IF t.kind = NodeType THEN nodeTag ELSE QualifiedNodeTag),
          Block(open, ContextByte(ContextZeroTag),
                IF t.kind = NodeType THEN TLV(emberIntTag, t.path)
                ELSE TLV(UniversalObjectTag, t.path))
          \o (IF t.ident = <<>> THEN <<>>
              ELSE Block(open, ContextByte(ContextTagOne),
                         Block(open, SetTag,
                               Block(open, ContextByte(ContextZeroTag),
                                     TLV(UTF8StringTag, t.ident)))))
          \o (IF t.children = <<>> THEN <<>>
              ELSE Block(open, ContextByte(ContextTagTwo),
                         Block(open, ApplicationByte(ElementCollectionTag),
                               EncodeSeqIn(open, t.children, 1)))))

EncodeRootsIn(open, ts) ==
    Block(open, ApplicationByte(RootElementCollectionTag),
          Block(open, ApplicationByte(RootElementTag), EncodeSeqIn(open, ts, 1)))

\* Elements with a path, an identifier and children.
FullTrees ==
    {Tree(NodeType, <<1>>, <<65>>, cs) :
        cs \in {<<Tree(NodeType, <<2>>, <<>>, <<>>)>>,
                <<Tree(NodeType, <<2>>, <<66>>, <<>>), Tree(QualifiedNodeType, <<1, 3>>, <<>>, <<>>)>>}}
    \cup {Tree(QualifiedNodeType, <<1, 2>>, <<65>>, <<Tree(NodeType, <<3>>, <<>>, <<>>)>>)}

\* The lists of top-level elements sent in the indefinite form.
OpenRootLists ==
    {<<t>> : t \in Leaves \cup FullTrees \cup {TwinTree, DeepTree}}
        \cup {<<t, u>> : t, u \in Leaves}

FullPayloads == {EncodeRootsIn(open, <<t>>) : open \in BOOLEAN, t \in FullTrees}

OpenPayloads == {EncodeRootsIn(TRUE, ts) : ts \in OpenRootLists}

\* The payloads that are cut: every proper beginning of the indefinite form
\* of one element with no child, with one child, and of two elements.
CutSources ==
    {EncodeRootsIn(TRUE, ts) :
        ts \in {<<Tree(NodeType, <<1>>, <<>>, <<>>)>>,
                <<Tree(NodeType, <<1>>, <<>>, <<Tree(NodeType, <<2>>, <<>>, <<>>)>>)>>,
                <<Tree(NodeType, <<1>>, <<>>, <<>>),
                  Tree(QualifiedNodeType, <<2>>, <<>>, <<>>)>>}}

CutPayloads ==
    UNION {{SubSeq(data, 1, n) : n \in 0..(Len(data) - 1)} : data \in CutSources}

\* The application tags an element is sent under, those of the five kinds of
\* element among them, and where the element stands in the payload: alone at
\* the top level, after node 1 at the top level, or as the child of node 1.
ElementTags == {0, 1, 2, 3, 4, 9, 10, 11, 19, 20, 21, 30}

TagPlaces == {"alone", "second", "child"}

\* The element 7 under the application tag n.
TaggedElement(n) ==
    TLV(ContextByte(ContextZeroTag),
        TLV(ApplicationByte(n), TLV(ContextByte(ContextZeroTag), TLV(emberIntTag, <<7>>))))

TaggedPayload(n, place) ==
    TLV(ApplicationByte(RootElementCollectionTag),
        TLV(ApplicationByte(RootElementTag),
            IF place = "alone" THEN TaggedElement(n)
            ELSE IF place = "second"
            THEN EncodeSeq(<<Tree(NodeType, <<1>>, <<>>, <<>>)>>, 1) \o TaggedElement(n)
            ELSE TLV(ContextByte(ContextZeroTag),
                     TLV(ApplicationByte(nodeTag),
                         TLV(ContextByte(ContextZeroTag), TLV(emberIntTag, <<1>>))
                         \o TLV(ContextByte(ContextTagTwo),
                                TLV(ApplicationByte(ElementCollectionTag),
                                    TaggedElement(n)))))))

\* The places of the elements of a collection: a key, then child indexes.
RECURSIVE PlacesBelow(_, _)
PlacesBelow(el, place) ==
    {place} \cup UNION {PlacesBelow(el.Children[i], Append(place, i)) :
                           i \in 1..Len(el.Children)}

Places(c) == UNION {PlacesBelow(c[key], <<key>>) : key \in DOMAIN c}

RECURSIVE ElementBelow(_, _)
ElementBelow(el, indexes) ==
    IF indexes = <<>> THEN el ELSE ElementBelow(el.Children[Head(indexes)], Tail(indexes))

ElementAt(c, place) == ElementBelow(c[Head(place)], Tail(place))

NoLookup == [depth |-> 0, parent |-> NewElement, child |-> NewElement, path |-> <<>>,
             el |-> NewElement, err |-> nil]

(***************************************************************************)
(* The collection scenario: a payload is parsed into a new collection and  *)
(* a child is looked up by the path of its parent joined to its own.       *)
(***************************************************************************)
\* The lists of decoders given to findWithData: up to three decoders, each
\* empty or holding one or two bytes.
DecoderLists == SeqsUpTo({<<>>, <<0>>, <<1, 2>>}, 3)

NoFinding == [decoders |-> <<>>, res |-> [err |-> nil, dec |-> <<>>]]

EmberInit ==
    /\ epc = "start"
    /\ response = <<>>
    /\ sent = NoParameter
    /\ collection = NewElementCollection
    /\ popErr = nil
    /\ lookup = NoLookup
    /\ finding = NoFinding

DoPopulate(data, from) ==
    /\ epc = "start"
    /\ response' = data
    /\ sent' = from
    /\ \E r \in {Populate(NewElementCollection, data)} :
          /\ collection' = r.ec
          /\ popErr' = r.err
          /\ epc' = IF r.err = nil THEN "populated" ELSE "failed"
    /\ UNCHANGED <<lookup, finding>>
    /\ UNCHANGED <<s101vars, asn1vars, clientvars, connvars>>

DoGetElementByPath(place, i) ==
    /\ epc = "populated"
    /\ place \in Places(collection)
    /\ i \in 1..Len(ElementAt(collection, place).Children)
    /\ \E E \in {ElementAt(collection, place)} :
          \E r \in GetElementByPath(collection, E.Path \o <<Dot>> \o E.Children[i].Path) :
             lookup' = [depth |-> Len(place) - 1, parent |-> E, child |-> E.Children[i],
                        path |-> E.Path \o <<Dot>> \o E.Children[i].Path,
                        el |-> IF r.err = nil THEN r.el ELSE NewElement,
                        err |-> r.err]
    /\ epc' = "looked"
    /\ UNCHANGED <<response, sent, collection, popErr, finding>>
    /\ UNCHANGED <<s101vars, asn1vars, clientvars, connvars>>

\* findWithData on a list of decoders, each given by the bytes it holds.
DoFindWithData(decoders) ==
    /\ epc = "start"
    /\ finding' = [decoders |-> decoders, res |-> findWithData(decoders)]
    /\ epc' = "found"
    /\ UNCHANGED <<response, sent, collection, popErr, lookup>>
    /\ UNCHANGED <<s101vars, asn1vars, clientvars, connvars>>

NextEmber ==
    \/ \E data \in Payloads : DoPopulate(data, NoParameter)
    \/ \E p \in ParameterInputs, below \in BOOLEAN :
          DoPopulate(ParameterPayload(p, below), [p |-> p, below |-> below])
    \/ epc = "start" /\ \E data \in FullPayloads \cup OpenPayloads :
                             DoPopulate(data, NoParameter)
    \/ epc = "start" /\ \E data \in CutPayloads : DoPopulate(data, NoParameter)
    \/ epc = "start" /\ \E n \in ElementTags, place \in TagPlaces :
                             DoPopulate(TaggedPayload(n, place), NoParameter)
    \/ epc = "start" /\ \E decoders \in DecoderLists : DoFindWithData(decoders)
    \/ \E place \in Places(collection) :
          \E i \in 1..Len(ElementAt(collection, place).Children) : DoGetElementByPath(place, i)

(***************************************************************************)
(* The inputs of the asn1 scenario.                                        *)
(***************************************************************************)
\* The bytes an Encoder holds before a call.
Prefixes == {<<>>, <<0>>, <<0, 0>>}

\* Subscribe, Unsubscribe, GetDirectory, Invoke and two codes that are none.
Commands == {0, 30, EmberGetUnsubscribeCommand, EmberGetDirCommand, 33, 200}

\* The paths given to WriteRequest: none, 1, 0.2, 1.300.
EncoderPaths == {<<>>, <<1>>, <<0, 2>>, <<1, 300>>}

\* What follows a tag byte: a length byte (short form, indefinite, long form
\* of one to five bytes, 0xFF) and up to MaxRest bytes after it.
LengthBytes == {0, 1, 2, 4, 128, 129, 130, 132, 133, 255}

RestBytes == {0, 1, 127}

LengthInputs ==
    {<<>>} \cup {<<b>> \o rest : b \in LengthBytes, rest \in SeqsUpTo(RestBytes, MaxRest)}

\* Contents of an INTEGER that has its sign bit set or a leading zero.
SignedContents ==
    {<<255>>, <<128>>, <<255, 255>>, <<128, 0>>, <<0, 255>>, <<255, 0, 1>>, <<254, 255, 255>>}

IntegerInputs ==
    {<<>>} \cup {<<t>> \o l : t \in {emberIntTag, UTF8StringTag}, l \in LengthInputs}
           \cup {<<emberIntTag, Len(content)>> \o content \o rest :
                     content \in SignedContents, rest \in {<<>>, <<1>>}}

\* The tag bytes at the front of the bytes given to Read, and the tags and
\* compare functions Read is called with.
TagBytes == {ApplicationByte(RootElementCollectionTag), ContextByte(ContextZeroTag),
             ContextByte(ContextTagOne), UniversalByte(SetTag)}

ReadCalls == {<<RootElementCollectionTag, "ApplicationByte">>,
              <<ContextZeroTag, "ContextByte">>, <<SetTag, "UniversalByte">>}

ReadInputs == {<<>>} \cup {<<t>> \o l : t \in TagBytes, l \in LengthInputs}

ReadEndInputs == SeqsUpTo({0, 1}, MaxRest)

\* The paths given to WriteUniversal: short ones, one of 127 components and
\* one of 128, and the bytes that follow the written path in the Decoder.
UniversalPaths ==
    SeqsUpTo({0, 1, 13, 128, 255}, 2)
    \cup {[i \in 1..127 |-> i], [i \in 1..128 |-> 1], <<300>>, <<1, 2, 3>>}

BytesAfter == {<<>>, <<0>>, <<13, 1>>, <<0, 0>>}

NoEncoderCall == [fn |-> "", data |-> <<>>, path |-> <<>>, tag |-> "", cmd |-> 0]

NoDecoderCall == [fn |-> "", data |-> <<>>, tag |-> 0, compare |-> ""]

(***************************************************************************)
(* The asn1 scenario: one call of an Encoder or of a Decoder method.       *)
(***************************************************************************)
Asn1Init ==
    /\ apc = "start"
    /\ encArgs = NoEncoderCall
    /\ encRes = [data |-> <<>>, err |-> "nil"]
    /\ decArgs = NoDecoderCall
    /\ decRes = [err |-> nil]

DoWriteRootTreeRequest(data) ==
    /\ apc = "start"
    /\ encArgs' = [NoEncoderCall EXCEPT !.fn = "WriteRootTreeRequest", !.data = data,
                                        !.cmd = EmberGetDirCommand]
    /\ encRes' = WriteRootTreeRequest(data)
    /\ apc' = "written"
    /\ UNCHANGED <<decArgs, decRes>>
    /\ UNCHANGED <<s101vars, embervars, clientvars, connvars>>

DoWriteCommand(data, cmd) ==
    /\ apc = "start"
    /\ encArgs' = [NoEncoderCall EXCEPT !.fn = "WriteCommand", !.data = data, !.cmd = cmd]
    /\ encRes' = WriteCommand(data, cmd)
    /\ apc' = "written"
    /\ UNCHANGED <<decArgs, decRes>>
    /\ UNCHANGED <<s101vars, embervars, clientvars, connvars>>

DoWriteRequest(data, path, tag, cmd) ==
    /\ apc = "start"
    /\ encArgs' = [fn |-> "WriteRequest", data |-> data, path |-> path, tag |-> tag,
                   cmd |-> cmd]
    /\ encRes' = WriteRequest(data, path, tag, cmd)
    /\ apc' = "written"
    /\ UNCHANGED <<decArgs, decRes>>
    /\ UNCHANGED <<s101vars, embervars, clientvars, connvars>>

DoDecodeInteger(c) ==
    /\ apc = "start"
    /\ decArgs' = [NoDecoderCall EXCEPT !.fn = "DecodeInteger", !.data = c]
    /\ decRes' = DecodeInteger(c)
    /\ apc' = "decoded"
    /\ UNCHANGED <<encArgs, encRes>>
    /\ UNCHANGED <<s101vars, embervars, clientvars, connvars>>

DoDecoderRead(c, tag, compare) ==
    /\ apc = "start"
    /\ decArgs' = [fn |-> "Read", data |-> c, tag |-> tag, compare |-> compare]
    /\ decRes' = Read(c, tag, compare)
    /\ apc' = "decoded"
    /\ UNCHANGED <<encArgs, encRes>>
    /\ UNCHANGED <<s101vars, embervars, clientvars, connvars>>

DoReadLength(c) ==
    /\ apc = "start"
    /\ decArgs' = [NoDecoderCall EXCEPT !.fn = "readLength", !.data = c]
    /\ decRes' = readLength(c)
    /\ apc' = "decoded"
    /\ UNCHANGED <<encArgs, encRes>>
    /\ UNCHANGED <<s101vars, embervars, clientvars, connvars>>

DoReadEnd(c) ==
    /\ apc = "start"
    /\ decArgs' = [NoDecoderCall EXCEPT !.fn = "ReadEnd", !.data = c]
    /\ decRes' = ReadEnd(c)
    /\ apc' = "decoded"
    /\ UNCHANGED <<encArgs, encRes>>
    /\ UNCHANGED <<s101vars, embervars, clientvars, connvars>>

\* WriteUniversal on a new Encoder.
DoWriteUniversal(path) ==
    /\ apc = "start"
    /\ encArgs' = [NoEncoderCall EXCEPT !.fn = "WriteUniversal", !.path = path]
    /\ encRes' = [data |-> WriteUniversal(<<>>, path), err |-> "nil"]
    /\ apc' = "universal"
    /\ UNCHANGED <<decArgs, decRes>>
    /\ UNCHANGED <<s101vars, embervars, clientvars, connvars>>

\* DecodeUniversal on a Decoder that holds the bytes WriteUniversal wrote and
\* the bytes after them.
DoDecodeUniversal(after) ==
    /\ apc = "universal"
    /\ decArgs' = [NoDecoderCall EXCEPT !.fn = "DecodeUniversal",
                                        !.data = encRes.data \o after]
    /\ decRes' = DecodeUniversal(encRes.data \o after)
    /\ apc' = "decoded"
    /\ UNCHANGED <<encArgs, encRes>>
    /\ UNCHANGED <<s101vars, embervars, clientvars, connvars>>

\* Every call is made from the start: the guard stands in front of the inputs.
NextAsn1 ==
    \/ apc = "start" /\ \E data \in Prefixes : DoWriteRootTreeRequest(data)
    \/ apc = "start" /\ \E data \in Prefixes, cmd \in Commands : DoWriteCommand(data, cmd)
    \/ apc = "start" /\ \E data \in Prefixes, path \in EncoderPaths, tag \in RequestTypes,
                             cmd \in Commands : DoWriteRequest(data, path, tag, cmd)
    \/ apc = "start" /\ \E c \in IntegerInputs : DoDecodeInteger(c)
    \/ apc = "start" /\ \E c \in ReadInputs, call \in ReadCalls :
                             DoDecoderRead(c, call[1], call[2])
    \/ apc = "start" /\ \E c \in LengthInputs : DoReadLength(c)
    \/ apc = "start" /\ \E c \in ReadEndInputs : DoReadEnd(c)
    \/ apc = "start" /\ \E path \in UniversalPaths : DoWriteUniversal(path)
    \/ apc = "universal" /\ \E after \in BytesAfter : DoDecodeUniversal(after)

(***************************************************************************)
(* The client (client/client.go).  The connection held is nil, or a        *)
(* net.Conn that is open or has been closed.  An error is the sequence of  *)
(* its messages, outermost first; <<>> is nil.                             *)
(***************************************************************************)
NoConn == "nil"

\* The size of the buffer a read of Receive fills.
ReadBufferSize == 1290

IsConnected(c) == c # NoConn

\* make([]byte, n): n zero bytes.
make(n) == [i \in 1..n |-> 0]

\* A variant of Connect that dials whatever connection is held.
ConnectUnguarded(c, dialled) ==
    IF ~dialled THEN [conn |-> c, err |-> <<"dial tcp">>]
    ELSE [conn |-> "open", err |-> nil]

\* dialled: net.Dial returned a connection.
Connect(c, dialled) ==
    IF IsConnected(c) THEN [conn |-> c, err |-> <<"already connected">>]
    ELSE IF ~dialled THEN [conn |-> c, err |-> <<"dial tcp">>]
    ELSE [conn |-> "open", err |-> nil]

\* The connection is closed and stays in the field conn.
Disconnect(c) ==
    IF ~IsConnected(c) THEN [conn |-> c, err |-> <<"not connected">>]
    ELSE [conn |-> "closed", err |-> nil]

\* accepted: the Write of an open connection took the bytes.
Write(c, data, accepted) ==
    IF ~IsConnected(c) THEN [n |-> 0, err |-> <<"not connected">>]
    ELSE IF c = "closed" \/ ~accepted THEN [n |-> 0, err |-> <<"error writing bytes">>]
    ELSE [n |-> Len(data), err |-> nil]

\* The loop of Receive.  reads holds what the reads of the connection return
\* from now on; when none is left the connection is lost and the read fails.
\* The first GetS101s of a message is given the whole buffer, the bytes read
\* and the zero bytes after them.
RECURSIVE receiveLoop(_, _, _, _)
receiveLoop(reads, incompleteS101, acc, multi) ==
    IF Len(reads) = 0
    THEN [out |-> <<>>, err |-> <<"failed to read from connection">>, reads |-> reads]
    ELSE
    (CHOOSE the \in {IF split.err # "nil"
         THEN [out |-> <<>>, err |-> <<"failed to get s101 data from read", split.err>>,
               reads |-> Tail(reads)]
         ELSE IF Len(split.incompleteData) > 0
         THEN receiveLoop(Tail(reads), split.incompleteData, acc, multi)
         ELSE
    (CHOOSE the2 \in {IF glow.err = "panic"
              THEN [out |-> <<>>, err |-> <<"panic">>, reads |-> Tail(reads)]
              ELSE IF glow.err # "nil"
              THEN receiveLoop(Tail(reads), <<>>, acc, multi)
              ELSE IF glow.lastPacketType \in {FirstMultiPacket, BodyMultiPacket}
              THEN receiveLoop(Tail(reads), <<>>, acc \o glow.out, TRUE)
              ELSE IF glow.lastPacketType = LastMultiPacket
              THEN [out |-> acc \o glow.out, err |-> nil, reads |-> Tail(reads)]
              ELSE IF multi
              THEN receiveLoop(Tail(reads), <<>>, acc, multi)
              ELSE [out |-> glow.out, err |-> nil, reads |-> Tail(reads)]
    : glow \in {Decode(split.s101s)}} : TRUE)
    : split \in {GetS101s(IF Len(incompleteS101) > 0
                          THEN incompleteS101 \o reads[1]
                          ELSE reads[1] \o make(ReadBufferSize - Len(reads[1])))}} : TRUE)

\* A read of a closed connection fails.
Receive(c, reads) ==
    IF ~IsConnected(c) THEN [out |-> <<>>, err |-> <<"not connected">>, reads |-> reads]
    ELSE IF c = "closed"
    THEN [out |-> <<>>, err |-> <<"failed to read from connection">>, reads |-> reads]
    ELSE receiveLoop(reads, <<>>, <<>>, FALSE)

\* GetByType returns the collection as JSON text; data is the collection the
\* text is made from.  What Write returns is dropped.
GetByType(c, reads, emberType, emberPath, accepted) ==
    IF ~IsConnected(c)
    THEN [data |-> NewElementCollection, err |-> <<"not connected">>, reads |-> reads,
          n |-> 0]
    ELSE
    (CHOOSE the \in {IF tr.err # "nil"
         THEN [data |-> NewElementCollection, err |-> <<tr.err>>, reads |-> reads, n |-> 0]
         ELSE
    (CHOOSE the2 \in {IF answer.err # nil
              THEN [data |-> NewElementCollection, err |-> answer.err,
                    reads |-> answer.reads, n |-> Write(c, tr.bytes, accepted).n]
              ELSE
    (CHOOSE the3 \in {[data |-> IF el2.err # nil THEN NewElementCollection ELSE el2.ec,
                       err |-> el2.err, reads |-> answer.reads,
                       n |-> Write(c, tr.bytes, accepted).n]
    : el2 \in {Populate(NewElementCollection, answer.out)}} : TRUE)
    : answer \in {Receive(c, reads)}} : TRUE)
    : tr \in {GetRequestByType(emberType, emberPath)}} : TRUE)

(***************************************************************************)
(* The client scenario: calls are made one after the other on one client.  *)
(* A provider is given by what the reads of its connection return.         *)
(***************************************************************************)
Answer == Encode(validApplication, SinglePacket)

CutAt(s, k) == <<SubSeq(s, 1, k), SubSeq(s, k + 1, Len(s))>>

\* Frames that hold no escape byte, and the ways they come grouped into
\* reads: a multi-packet message of three frames, a single-packet frame in
\* the middle of one, two single-packet frames.
FirstFrame(msg) == GetS101s(Encode(msg, FirstMultiPacket)).s101s[1]

GroupedFrames ==
    LET F == FirstFrame(<<2>>)
        B == Encode(<<3>>, BodyMultiPacket)
        L == Encode(<<5>>, LastMultiPacket)
        S == Encode(<<6>>, SinglePacket)
        T == Encode(<<2>>, SinglePacket)
    IN  {<<F, B, L>>, <<F \o B \o L>>, <<F \o B, L>>, <<F, S, L>>, <<F, S \o L>>,
         <<F \o S, L>>, <<S \o T>>, <<S, T>>, <<S \o F, L>>, <<S>>}

\* One frame that arrives in two or three reads.
CutFrames ==
    LET S == Encode(<<6>>, SinglePacket)
    IN  {CutAt(S, k) : k \in {1, 5, 10, 11, 13}}
        \cup {<<SubSeq(S, 1, 4), SubSeq(S, 5, 11), SubSeq(S, 12, Len(S))>>}

Scripts ==
    {<<>>, <<Answer>>, <<Answer, Answer>>, CutAt(Answer, 20), <<(<<65>>), Answer>>,
     <<ShortFrame, Answer>>,
     <<Encode(<<1>>, FirstMultiPacket)>>,
     <<Encode(<<1>>, BodyMultiPacket), Encode(<<2>>, LastMultiPacket)>>,
     <<Encode(<<1>>, BodyMultiPacket), Encode(<<3>>, SinglePacket),
       Encode(<<2>>, LastMultiPacket)>>,
     <<Encode(<<1>>, BodyMultiPacket)>>}
    \cup GroupedFrames \cup CutFrames

WriteData == {<<>>, <<1>>, Encode(<<1>>, SinglePacket)}

\* reads: what the call read from the connection.
NoCall == [op |-> "", err |-> nil, n |-> 0, out |-> <<>>, data |-> NewElementCollection,
           reads |-> <<>>]

Taken(reads, left) == SubSeq(reads, 1, Len(reads) - Len(left))

ClientInit ==
    /\ conn = NoConn
    /\ pending = <<>>
    /\ lastCall = NoCall

DoConnect(dialled, script) ==
    /\ \E r \in {Connect(conn, dialled)} :
          /\ conn' = r.conn
          /\ pending' = IF ~IsConnected(conn) /\ r.err = nil THEN script ELSE pending
          /\ lastCall' = [NoCall EXCEPT !.op = "Connect", !.err = r.err]
    /\ UNCHANGED <<s101vars, embervars, asn1vars, connvars>>

DoDisconnect ==
    /\ \E r \in {Disconnect(conn)} :
          /\ conn' = r.conn
          /\ lastCall' = [NoCall EXCEPT !.op = "Disconnect", !.err = r.err]
    /\ UNCHANGED pending
    /\ UNCHANGED <<s101vars, embervars, asn1vars, connvars>>

DoWrite(data, accepted) ==
    /\ \E r \in {Write(conn, data, accepted)} :
          lastCall' = [NoCall EXCEPT !.op = "Write", !.err = r.err, !.n = r.n]
    /\ UNCHANGED <<conn, pending>>
    /\ UNCHANGED <<s101vars, embervars, asn1vars, connvars>>

DoReceive ==
    /\ \E r \in {Receive(conn, pending)} :
          /\ pending' = r.reads
          /\ lastCall' = [NoCall EXCEPT !.op = "Receive", !.err = r.err, !.out = r.out,
                                       !.reads = Taken(pending, r.reads)]
    /\ UNCHANGED conn
    /\ UNCHANGED <<s101vars, embervars, asn1vars, connvars>>

DoGetByType(emberType, emberPath, accepted) ==
    /\ \E r \in {GetByType(conn, pending, emberType, emberPath, accepted)} :
          /\ pending' = r.reads
          /\ lastCall' = [NoCall EXCEPT !.op = "GetByType", !.err = r.err, !.n = r.n,
                                    !.data = r.data, !.reads = Taken(pending, r.reads)]
    /\ UNCHANGED conn
    /\ UNCHANGED <<s101vars, embervars, asn1vars, connvars>>

NextClient ==
    \/ \E dialled \in BOOLEAN, script \in Scripts : DoConnect(dialled, script)
    \/ DoDisconnect
    \/ \E data \in WriteData, accepted \in BOOLEAN : DoWrite(data, accepted)
    \/ DoReceive
    \/ \E emberType \in {QualifiedNodeType, NodeType, "matrix"}, emberPath \in {<<>>, <<49>>},
          accepted \in BOOLEAN : DoGetByType(emberType, emberPath, accepted)

(***************************************************************************)
(* The connection pool (conn/conn.go) for one ConnConfig.  A handler is    *)
(* named by the caller that dialled it; NoHandler is the missing map entry *)
(* and the nil handler.  Each of getConn, setConn, close, closeUnused and  *)
(* CloseAll runs under c.mu and is one step.  A channel is unbuffered: a   *)
(* send and the matching receive are one step of both goroutines.          *)
(***************************************************************************)
Callers == {1, 2}

NoHandler == 0

ErrConnectionSet == <<"connection handler already exists">>

\* newConn: the handler of a connection just dialled, given what its reads
\* will return.
newConn(script) ==
    [conn |-> "open", mu |-> 0, readDataClosed |-> FALSE, reads |-> script]

NoConnHandler ==
    [conn |-> "none", mu |-> 0, readDataClosed |-> FALSE, reads |-> <<>>]

getConn(m) == m

\* A variant of setConn that stores the handler in every case.
setConnOverwrite(m, h) == [conns |-> h, err |-> nil]

setConn(m, h) ==
    IF m # NoHandler THEN [conns |-> m, err |-> ErrConnectionSet]
    ELSE [conns |-> h, err |-> nil]

\* close(conf): the entry stays when Close returns an error.
close(m, hs) ==
    IF m = NoHandler THEN [conns |-> m, handler |-> hs, err |-> nil]
    ELSE IF hs[m].conn = "closed"
    THEN [conns |-> m, handler |-> hs, err |-> <<"failed to close connection">>]
    ELSE [conns |-> NoHandler, handler |-> [hs EXCEPT ![m].conn = "closed"], err |-> nil]

\* The body of the loops of closeUnused and CloseAll for the one entry.
closeAndDelete(m, hs) ==
    IF m = NoHandler THEN [conns |-> m, handler |-> hs]
    ELSE [conns |-> NoHandler, handler |-> [hs EXCEPT ![m].conn = "closed"]]

parseExpectedLength(path) ==
    IF path = <<>> THEN [split |-> <<>>, length |-> 1]
    ELSE [split |-> SplitDots(path, <<>>), length |-> Len(SplitDots(path, <<>>))]

\* A variant of expectedData that takes every incoming path.
expectedDataAny(expectedPath, incomingPath) == TRUE

expectedData(expectedPath, incomingPath) ==
    LET p == parseExpectedLength(expectedPath)
    IN  IF Len(incomingPath) # p.length /\ Len(incomingPath) # p.length + 1
        THEN FALSE
        ELSE \A i \in 1..Len(p.split) : incomingPath[i] = p.split[i]

\* getCollection: the outcomes, one for each key the range over the map may
\* give first.
getCollection(glow) ==
    (CHOOSE the \in {IF el.err # nil
         THEN {[el |-> NewElementCollection, gotPath |-> <<>>,
                err |-> <<"failed to populate glow response">> \o el.err]}
         ELSE IF DOMAIN el.ec = {}
         THEN {[el |-> NewElementCollection, gotPath |-> <<>>,
                err |-> <<"empty collection">>]}
         ELSE {[el |-> el.ec, gotPath |-> SplitDots(k.Path, <<>>), err |-> nil] :
                  k \in DOMAIN el.ec}
    : el \in {Populate(NewElementCollection, glow)}} : TRUE)

\* connHandler.read has the loop of Receive.  A closed connection fails at
\* once.  When the bytes that came are used up the read waits; it ends with
\* an error when the connection is lost, which is the outcome given here.
read(h) ==
    IF h.conn = "closed"
    THEN [data |-> <<>>, err |-> <<"failed to read from connection">>, reads |-> h.reads]
    ELSE
    (CHOOSE the \in {[data |-> r.out, err |-> r.err, reads |-> r.reads]
    : r \in {receiveLoop(h.reads, <<>>, <<>>, FALSE)}} : TRUE)

\* The statements of HandleRequest after get, in order.
HandleRequestWriteFirst ==
    <<"Lock", "SetWriteDeadline", "Write", "expectedPath", "parsedData", "returned">>

HandleRequestOrder ==
    <<"Lock", "expectedPath", "SetWriteDeadline", "Write", "parsedData", "returned">>

After(at) == HandleRequestOrder[1 + CHOOSE i \in 1..5 : HandleRequestOrder[i] = at]

\* A variant of Lock that does not wait.
LockFree(mu) == TRUE

\* ch.mu.Lock() goes on when the mutex is free.
Lock(mu) == mu = 0

(***************************************************************************)
(* The pool scenario: two callers, each with one HandleRequest; the        *)
(* housekeeper, CloseAll and the loss of a connection come at any time.    *)
(***************************************************************************)
\* The provider's messages: elements with the paths 1.2, 1.2.3, 2, one
\* message with the elements 1 and 2, and one that cannot be parsed.
Message(ts) == Encode(EncodeRoots(ts), SinglePacket)

M12 == Message(<<Tree(QualifiedNodeType, <<1, 2>>, <<>>, <<>>)>>)

M123 == Message(<<Tree(QualifiedNodeType, <<1, 2, 3>>, <<>>, <<>>)>>)

M2 == Message(<<Tree(NodeType, <<2>>, <<>>, <<>>)>>)

M1and2 == Message(<<Tree(NodeType, <<1>>, <<>>, <<>>), Tree(NodeType, <<2>>, <<>>, <<>>)>>)

Unparsed == Message(<<>>)

\* What a connection will deliver, and the paths asked for: "1.2", "1", "".
ConnScripts == {<<>>, <<M12>>, <<M2, M12>>, <<Unparsed, M1and2>>, <<M123>>}

ConnPaths == {<<49, Dot, 50>>, <<49>>, <<>>}

NoResult == [el |-> NewElementCollection, err |-> nil, gotPath |-> <<>>, during |-> 0]

\* alone: the call is one of those taken with no other caller.
NoCaller == [pc |-> "idle", ch |-> NoHandler, path |-> <<>>, res |-> NoResult,
             alone |-> FALSE]

NoPathReader == [pc |-> "none", path |-> <<>>, by |-> 0, res |-> NoResult]

\* during: the caller whose path readExpected held when the read returned.
NoReader == [pc |-> "none", data |-> <<>>, err |-> nil, during |-> 0]

\* One caller alone is taken with every path and every script.  The two
\* callers together are taken with the path 1.2 and connections that deliver
\* that element.
PlainScripts == {<<M12>>}

PlainCall(c) == caller[c].pc = "idle" \/ ~caller[c].alone

PathsOf(c) ==
    IF \A d \in Callers \ {c} : caller[d].pc = "idle" THEN ConnPaths
    ELSE IF \A d \in Callers \ {c} : PlainCall(d) THEN {<<49, Dot, 50>>}
    ELSE {}

ScriptsOf(c) ==
    IF \A d \in Callers \ {c} : caller[d].pc = "idle" THEN ConnScripts ELSE PlainScripts

ConnInit ==
    /\ conns = NoHandler
    /\ done = FALSE
    /\ handler = [h \in Callers |-> NoConnHandler]
    /\ caller = [c \in Callers |-> NoCaller]
    /\ pathReader = [h \in Callers |-> NoPathReader]
    /\ reader = [h \in Callers |-> NoReader]

Rest == <<s101vars, embervars, asn1vars, clientvars>>

\* HandleRequest is called; get looks the handler up.
DoHandleRequest(c, path) ==
    /\ caller[c].pc = "idle"
    /\ caller' = [caller EXCEPT ![c] =
          IF getConn(conns) # NoHandler
          THEN [NoCaller EXCEPT !.pc = "Lock", !.ch = getConn(conns), !.path = path,
                                !.alone = path # <<49, Dot, 50>>]
          ELSE [NoCaller EXCEPT !.pc = "newConn", !.path = path,
                                !.alone = path # <<49, Dot, 50>>]]
    /\ UNCHANGED <<conns, done, handler, pathReader, reader>>
    /\ UNCHANGED Rest

\* get: newConn dials.
DoNewConn(c, dialled, script) ==
    /\ caller[c].pc = "newConn"
    /\ IF dialled
       THEN /\ handler' = [handler EXCEPT ![c] = newConn(script)]
            /\ caller' = [caller EXCEPT ![c].pc = "setConn",
                                        ![c].alone = @ \/ script \notin PlainScripts]
       ELSE /\ caller' = [caller EXCEPT ![c].pc = "returned",
                                        ![c].res.err = <<"failed to get conn">>]
            /\ UNCHANGED handler
    /\ UNCHANGED <<conns, done, pathReader, reader>>
    /\ UNCHANGED Rest

\* get: setConn, and go ch.pathReader(c) when the handler was stored;
\* pathReader begins with go ch.reader(c).
DoSetConn(c) ==
    /\ caller[c].pc = "setConn"
    /\ \E r \in {setConn(conns, c)} :
          /\ conns' = r.conns
          /\ IF r.err # nil
             THEN /\ caller' = [caller EXCEPT ![c].pc = "existing"]
                  /\ UNCHANGED <<pathReader, reader>>
             ELSE /\ caller' = [caller EXCEPT ![c].pc = "Lock", ![c].ch = c]
                  /\ pathReader' = [pathReader EXCEPT ![c].pc = "select"]
                  /\ reader' = [reader EXCEPT ![c].pc = "read"]
    /\ UNCHANGED <<done, handler>>
    /\ UNCHANGED Rest

\* get: the handler found in the map is taken and the connection dialled in
\* vain is closed when get returns.
DoGetExisting(c) ==
    /\ caller[c].pc = "existing"
    /\ handler' = [handler EXCEPT ![c].conn = "closed"]
    /\ caller' = [caller EXCEPT ![c] =
          IF getConn(conns) = NoHandler
          THEN [@ EXCEPT !.pc = "returned", !.res.err = <<"failed to get conn">>]
          ELSE [@ EXCEPT !.pc = "Lock", !.ch = getConn(conns)]]
    /\ UNCHANGED <<conns, done, pathReader, reader>>
    /\ UNCHANGED Rest

DoLock(c) ==
    /\ caller[c].pc = "Lock"
    /\ Lock(handler[caller[c].ch].mu)
    /\ handler' = [handler EXCEPT ![caller[c].ch].mu = c]
    /\ caller' = [caller EXCEPT ![c].pc = After("Lock")]
    /\ UNCHANGED <<conns, done, pathReader, reader>>
    /\ UNCHANGED Rest

\* ch.expectedPath <- path, received by the select of pathReader, which
\* calls readExpected.
DoExpectedPath(c) ==
    /\ caller[c].pc = "expectedPath"
    /\ pathReader[caller[c].ch].pc = "select"
    /\ pathReader' = [pathReader EXCEPT ![caller[c].ch] =
          [NoPathReader EXCEPT !.pc = "readExpected", !.path = caller[c].path, !.by = c]]
    /\ caller' = [caller EXCEPT ![c].pc = After("expectedPath")]
    /\ UNCHANGED <<conns, done, handler, reader>>
    /\ UNCHANGED Rest

\* SetWriteDeadline fails on a closed connection; HandleRequest returns and
\* the deferred Unlock runs.
DoSetWriteDeadline(c) ==
    /\ caller[c].pc = "SetWriteDeadline"
    /\ IF handler[caller[c].ch].conn = "closed"
       THEN /\ caller' = [caller EXCEPT ![c].pc = "returned",
                             ![c].res.err = <<"failed to set write deadline for connection">>]
            /\ handler' = [handler EXCEPT ![caller[c].ch].mu = 0]
       ELSE /\ caller' = [caller EXCEPT ![c].pc = After("SetWriteDeadline")]
            /\ UNCHANGED handler
    /\ UNCHANGED <<conns, done, pathReader, reader>>
    /\ UNCHANGED Rest

\* ch.conn.Write(req); accepted: the open connection took the bytes.
DoConnWrite(c, accepted) ==
    /\ caller[c].pc = "Write"
    /\ caller' = [caller EXCEPT ![c].pc =
          IF handler[caller[c].ch].conn = "closed" \/ ~accepted
          THEN "close" ELSE After("Write")]
    /\ UNCHANGED <<conns, done, handler, pathReader, reader>>
    /\ UNCHANGED Rest

\* The write failed: c.close(conf), then the return and the Unlock.
DoCloseAfterWrite(c) ==
    /\ caller[c].pc = "close"
    /\ \E r \in {close(conns, handler)} :
          /\ conns' = r.conns
          /\ handler' = [r.handler EXCEPT ![caller[c].ch].mu = 0]
    /\ caller' = [caller EXCEPT ![c].pc = "returned",
                                ![c].res.err = <<"failed to write to connection">>]
    /\ UNCHANGED <<done, pathReader, reader>>
    /\ UNCHANGED Rest

\* data := <-ch.parsedData, sent by pathReader; HandleRequest returns.
DoParsedData(c) ==
    /\ caller[c].pc = "parsedData"
    /\ pathReader[caller[c].ch].pc = "parsedData"
    /\ caller' = [caller EXCEPT ![c].pc = After("parsedData"),
          ![c].res = IF pathReader[caller[c].ch].res.err # nil
                     THEN [pathReader[caller[c].ch].res EXCEPT
                              !.err = <<"failed to find element">> \o @]
                     ELSE pathReader[caller[c].ch].res]
    /\ handler' = [handler EXCEPT ![caller[c].ch].mu = 0]
    /\ pathReader' = [pathReader EXCEPT ![caller[c].ch].pc = "select"]
    /\ UNCHANGED <<conns, done, reader>>
    /\ UNCHANGED Rest

\* reader: data, err := ch.read().
DoReaderRead(h) ==
    /\ reader[h].pc = "read"
    /\ \E r \in {read(handler[h])} :
          /\ reader' = [reader EXCEPT ![h] =
                [pc |-> "readData", data |-> r.data, err |-> r.err,
                 during |-> IF pathReader[h].pc = "readExpected"
                            THEN pathReader[h].by ELSE 0]]
          /\ handler' = [handler EXCEPT ![h].reads = r.reads]
    /\ UNCHANGED <<conns, done, caller, pathReader>>
    /\ UNCHANGED Rest

\* reader: ch.readData <- readResponse{data, err}, received by the select of
\* pathReader: data nobody asked for is dropped, an error ends pathReader.
DoReadDataToSelect(h) ==
    /\ reader[h].pc = "readData"
    /\ pathReader[h].pc = "select"
    /\ pathReader' = [pathReader EXCEPT ![h].pc =
          IF reader[h].err # nil THEN "done" ELSE "select"]
    /\ reader' = [reader EXCEPT ![h].pc = IF reader[h].err # nil THEN "close" ELSE "read"]
    /\ UNCHANGED <<conns, done, handler, caller>>
    /\ UNCHANGED Rest

\* What readExpected does with a response: nothing (continue), or it returns.
readExpected(p, resp) ==
    IF resp.err # nil
    THEN {[p EXCEPT !.pc = "parsedData",
                    !.res.err = <<"failed to read Ember+ response">> \o resp.err]}
    ELSE {IF g.err # nil \/ ~expectedData(p.path, g.gotPath)
          THEN p
          ELSE [p EXCEPT !.pc = "parsedData",
                         !.res = [el |-> g.el, err |-> nil, gotPath |-> g.gotPath,
                                  during |-> resp.during]] :
             g \in getCollection(resp.data)}

\* reader: ch.readData <- readResponse{data, err}, received by readExpected.
DoReadDataToExpected(h) ==
    /\ reader[h].pc = "readData"
    /\ pathReader[h].pc = "readExpected"
    /\ \E p \in readExpected(pathReader[h], reader[h]) :
          pathReader' = [pathReader EXCEPT ![h] = p]
    /\ reader' = [reader EXCEPT ![h].pc = IF reader[h].err # nil THEN "close" ELSE "read"]
    /\ UNCHANGED <<conns, done, handler, caller>>
    /\ UNCHANGED Rest

\* readExpected: the timer fires.
DoTimeout(h) ==
    /\ pathReader[h].pc = "readExpected"
    /\ pathReader' = [pathReader EXCEPT ![h].pc = "parsedData",
          ![h].res.err = <<"failed to find Ember+ response in time">>]
    /\ UNCHANGED <<conns, done, handler, caller, reader>>
    /\ UNCHANGED Rest

\* pathReader: the select finds readData closed.
DoReadDataClosed(h) ==
    /\ pathReader[h].pc = "select"
    /\ handler[h].readDataClosed
    /\ pathReader' = [pathReader EXCEPT ![h].pc = "done"]
    /\ UNCHANGED <<conns, done, handler, caller, reader>>
    /\ UNCHANGED Rest

\* reader, after an error was sent: c.close(ch.conf).
DoReaderClose(h) ==
    /\ reader[h].pc = "close"
    /\ \E r \in {close(conns, handler)} :
          /\ conns' = r.conns
          /\ handler' = r.handler
    /\ reader' = [reader EXCEPT ![h].pc = "closeReadData"]
    /\ UNCHANGED <<done, caller, pathReader>>
    /\ UNCHANGED Rest

\* reader: close(ch.readData) and the return.
DoCloseReadData(h) ==
    /\ reader[h].pc = "closeReadData"
    /\ handler' = [handler EXCEPT ![h].readDataClosed = TRUE]
    /\ reader' = [reader EXCEPT ![h].pc = "done"]
    /\ UNCHANGED <<conns, done, caller, pathReader>>
    /\ UNCHANGED Rest

\* housekeeper: a tick of the ticker when the entry was not used for the
\* keep-alive time.
DoCloseUnused ==
    /\ ~done
    /\ conns # NoHandler
    /\ \E r \in {closeAndDelete(conns, handler)} :
          /\ conns' = r.conns
          /\ handler' = r.handler
    /\ UNCHANGED <<done, caller, pathReader, reader>>
    /\ UNCHANGED Rest

DoCloseAll ==
    /\ ~done
    /\ done' = TRUE
    /\ \E r \in {closeAndDelete(conns, handler)} :
          /\ conns' = r.conns
          /\ handler' = r.handler
    /\ UNCHANGED <<caller, pathReader, reader>>
    /\ UNCHANGED Rest

CallerStep(c) ==
    \/ \E dialled \in BOOLEAN, script \in ScriptsOf(c) : DoNewConn(c, dialled, script)
    \/ DoSetConn(c)
    \/ DoGetExisting(c)
    \/ DoLock(c)
    \/ DoExpectedPath(c)
    \/ DoSetWriteDeadline(c)
    \/ \E accepted \in BOOLEAN : DoConnWrite(c, accepted)
    \/ DoCloseAfterWrite(c)
    \/ DoParsedData(c)

HandlerStep(h) ==
    \/ DoReaderRead(h)
    \/ DoReadDataToSelect(h)
    \/ DoReadDataToExpected(h)
    \/ DoTimeout(h)
    \/ DoReadDataClosed(h)
    \/ DoReaderClose(h)
    \/ DoCloseReadData(h)

NextConn ==
    \/ \E c \in Callers : \E path \in PathsOf(c) : DoHandleRequest(c, path)
    \/ \E c \in Callers : CallerStep(c)
    \/ \E h \in Callers : HandlerStep(h)
    \/ DoCloseUnused
    \/ DoCloseAll

(***************************************************************************)
(* The specifications: each scenario runs with the others at rest.         *)
(***************************************************************************)
Init == S101Init /\ EmberInit /\ Asn1Init /\ ClientInit /\ ConnInit

Spec == Init /\ [][Next]_vars

SpecEmber == Init /\ [][NextEmber]_vars

SpecAsn1 == Init /\ [][NextAsn1]_vars

SpecClient == Init /\ [][NextClient]_vars

SpecConn == Init /\ [][NextConn]_vars

\* The steps of the reader goroutine of handler h; the sends on readData are
\* steps of it together with the receiver.
ReaderStep(h) ==
    \/ DoReaderRead(h)
    \/ DoReadDataToSelect(h)
    \/ DoReadDataToExpected(h)
    \/ DoReaderClose(h)
    \/ DoCloseReadData(h)

\* A goroutine that can run does run, a read of the connection returns, and
\* the timer of readExpected fires.  Nothing makes a call of HandleRequest,
\* a tick of the housekeeper or CloseAll happen.
ConnFairness ==
    /\ \A c \in Callers : WF_vars(CallerStep(c))
    /\ \A h \in Callers : WF_vars(ReaderStep(h))
    /\ \A h \in Callers : WF_vars(DoTimeout(h))
    /\ \A h \in Callers : WF_vars(DoReadDataClosed(h))

SpecConnLive == Init /\ [][NextConn]_vars /\ ConnFairness


(***************************************************************************)
(* Reference notions used to state the properties of the S101 codec.  They *)
(* are written from the wire format, not from the code.                    *)
(***************************************************************************)
\* The number of bytes of s before position i that need escaping.
EscapedBefore(s, i) == Cardinality({j \in 1..(i - 1) : s[j] >= bofne})

\* The escaped form of s: a byte of 0xF8 and above becomes the marker 0xFD
\* and then the byte XOR 0x20; every other byte stays.
RefEscape(s) ==
    [p \in 1..(Len(s) + EscapedBefore(s, Len(s) + 1)) |->
        LET i == CHOOSE j \in 1..Len(s) :
                     /\ j + EscapedBefore(s, j) <= p
                     /\ p <= j + EscapedBefore(s, j) + (IF s[j] >= bofne THEN 1 ELSE 0)
        IN  IF s[i] < bofne THEN s[i]
            ELSE IF p = i + EscapedBefore(s, i) THEN ce
            ELSE XorByte(s[i], xorce)]

\* The n-th smallest member of a set of numbers.
Nth(S, n) == CHOOSE x \in S : Cardinality({y \in S : y < x}) = n - 1

\* The de-escaped form of e: the markers go, the byte after one is XORed.
NonMarkers(e) == {j \in 1..Len(e) : e[j] # ce}

RefUnescape(e) ==
    [n \in 1..Cardinality(NonMarkers(e)) |->
        LET j == Nth(NonMarkers(e), n)
        IN  IF j > 1 /\ e[j - 1] = ce THEN XorByte(e[j], xorce) ELSE e[j]]

\* The CRC of data with every byte taking one update step, complemented.
RefCRCFold[c \in 0..65535, data \in Seq(0..255)] ==
    IF Len(data) = 0 THEN c
    ELSE IF Len(data) = 1 THEN computeCRCByte(c, data[1])
    ELSE RefCRCFold[RefCRCFold[c, FirstHalf(data)], SecondHalf(data)]

RefCRC(data) == 65535 - RefCRCFold[eof16, data]

\* The layout of one frame on the wire.
RefFrame(payload, pType, c) ==
    <<bof>> \o <<slot, messageType, commandType, version, pType, dtdType, appBytes,
                 minorVersion, majorVersion>>
            \o RefEscape(payload) \o RefEscape(<<c % 256, c \div 256>>) \o <<eof>>

\* The positions of the EOF bytes that end a complete frame of w, and the BOF
\* that begins the frame ending at e: the last BOF before e.
FrameStart(w, e) == CHOOSE b \in 1..(e - 1) :
                        /\ w[b] = bof
                        /\ \A j \in (b + 1)..(e - 1) : w[j] # bof

FrameEnds(w) == {e \in 1..Len(w) :
                    /\ w[e] = eof
                    /\ \E b \in 1..(e - 1) :
                          /\ w[b] = bof
                          /\ \A j \in (b + 1)..(e - 1) : w[j] # eof}

\* The complete frames of w in stream order.
RefFrames(w) ==
    [n \in 1..Cardinality(FrameEnds(w)) |->
        SubSeq(w, FrameStart(w, Nth(FrameEnds(w), n)), Nth(FrameEnds(w), n))]

\* The bytes of the frame w ends inside: from the last BOF that no EOF follows.
OpenStarts(w) == {b \in 1..Len(w) :
                     w[b] = bof /\ \A j \in (b + 1)..Len(w) : w[j] \notin {bof, eof}}

RefTrailing(w) ==
    IF OpenStarts(w) = {} THEN <<>>
    ELSE SubSeq(w, CHOOSE b \in OpenStarts(w) : TRUE, Len(w))

\* The bytes of a complete frame between its header and its CRC, de-escaped.
\* The escaped CRC is the last two values before EOF, each one or two bytes.
CrcHiStart(f) == IF f[Len(f) - 2] = ce THEN Len(f) - 2 ELSE Len(f) - 1

CrcLoStart(f) == IF f[CrcHiStart(f) - 2] = ce THEN CrcHiStart(f) - 2
                 ELSE CrcHiStart(f) - 1

RefBody(f) == RefUnescape(SubSeq(f, s101LenTilGlow + 1, CrcLoStart(f) - 1))

RECURSIVE RefBodies(_)
RefBodies(frames) ==
    IF frames = <<>> THEN <<>> ELSE RefBody(Head(frames)) \o RefBodies(Tail(frames))

FromEncode == packetType \in PacketTypes

(***************************************************************************)
(* The properties of the S101 codec.                                       *)
(***************************************************************************)
\* C1: a payload without a byte of 0xF8 or above, encoded as a single packet,
\* split with GetS101s and decoded, comes back as it was, with the last packet
\* type single and no error.
C1_RoundTrip ==
    (/\ pc = "decoded"
     /\ packetType = SinglePacket
     /\ \A i \in 1..Len(message) : message[i] < bofne)
    => /\ out = message
       /\ lastPacketType = SinglePacket
       /\ decErr = "nil"

\* C2: a frame stream cut at any position and read in two calls, the second
\* given the first call's trailing bytes before the rest, gives the frames of
\* the whole stream in order and no trailing bytes at the end; a cut inside the
\* first frame of a two-frame stream gives no frame and the bytes read so far
\* as trailing.
C2_Resumable ==
    (pc = "resumed" /\ FromEncode)
    => /\ resumed.first.s101s \o resumed.second.s101s = GetS101s(wire).s101s
       /\ resumed.second.incompleteData = <<>>
       /\ (packetType = FirstMultiPacket /\ resumed.cut < Len(RefFrames(wire)[1]))
          => /\ resumed.first.s101s = <<>>
             /\ resumed.first.incompleteData = SubSeq(wire, 1, resumed.cut)

\* C3: GetS101s returns every complete frame of its input in stream order and,
\* when the input ends inside a frame, the bytes of that frame as trailing,
\* also when complete frames come before it.
C3_FramesAndTrailing ==
    (pc = "split" /\ getErr = "nil")
    => /\ s101s = RefFrames(wire)
       /\ incompleteData = RefTrailing(wire)

\* C4: Encode with the first-multi packet type writes exactly two frames, a
\* first-multi frame carrying the payload and then a last-multi frame with an
\* empty payload; with any other packet type it writes one frame.  The request
\* functions encode with first-multi.
C4_EncodeFrames ==
    /\ pc \in {"encoded", "requested"}
       => /\ Len(RefFrames(wire)) = IF packetType = FirstMultiPacket THEN 2 ELSE 1
          /\ RefFrames(wire)[1] = createS101(message, packetType)
          /\ RefFrames(wire)[1][6] = packetType
          /\ packetType = FirstMultiPacket
             => /\ RefFrames(wire)[2] = createS101(<<>>, LastMultiPacket)
                /\ RefFrames(wire)[2][6] = LastMultiPacket
                /\ wire = RefFrames(wire)[1] \o RefFrames(wire)[2]
          /\ packetType # FirstMultiPacket => wire = RefFrames(wire)[1]
    /\ pc = "requested" => packetType = FirstMultiPacket

C4_Witness ==
    /\ pc = "requested"
    /\ packetType = FirstMultiPacket
    /\ Len(message) > 0
    /\ Len(RefFrames(wire)) = 2

\* C5: Decode returns the concatenation, frame by frame, of the de-escaped
\* bytes between the header and the CRC, and the packet-type byte of the last
\* frame.
C5_DecodeBodies ==
    (pc = "decoded" /\ FromEncode /\ decErr = "nil" /\ Len(s101s) > 0)
    => /\ out = RefBodies(s101s)
       /\ lastPacketType = s101s[Len(s101s)][6]

\* C6: a frame is BOF, the nine header bytes unescaped, the escaped payload,
\* the escaped CRC with its low byte first, EOF.
C6_FrameLayout ==
    pc \in {"encoded", "requested"}
    => /\ RefFrames(wire)[1] = RefFrame(message, packetType, crc[1])
       /\ packetType = FirstMultiPacket
          => RefFrames(wire)[2] = RefFrame(<<>>, LastMultiPacket, crc[2])

C6_Witness ==
    /\ pc = "encoded"
    /\ \E i \in 1..Len(message) : message[i] >= bofne
    /\ crc[1] % 256 >= bofne
    /\ crc[1] % 256 # crc[1] \div 256

\* C7: the CRC is computed over the header and every byte of the unescaped
\* payload, each byte taking one update step with its own value.
C7_CRCOverEveryByte ==
    pc \in {"encoded", "requested"}
    => crc[1] = RefCRC(s101Info(packetType) \o message)

\* C8 as stated: in the escaped payload no byte of 0xF8 to 0xFF appears except
\* right after a 0xFD marker.
C8_HighOnlyAfterMarker ==
    pc = "encoded"
    => \A i \in 1..Len(escaped) :
          escaped[i] >= bofne => (i > 1 /\ escaped[i - 1] = ce)

\* C8 amended: in the escaped payload the only byte of 0xF8 to 0xFF is the
\* 0xFD marker itself; a byte follows every marker and lies in 0xD8 to 0xDF,
\* and the escaped payload de-escapes to the payload.
C8_OnlyMarkerHigh ==
    pc = "encoded"
    => /\ \A i \in 1..Len(escaped) :
             escaped[i] >= bofne
             => /\ escaped[i] = ce
                /\ i < Len(escaped)
                /\ escaped[i + 1] \in 216..223
       /\ RefUnescape(escaped) = message

C8_Witness ==
    /\ pc = "encoded"
    /\ Len(message) = 2
    /\ message[1] = ce
    /\ message[2] >= bofne

(***************************************************************************)
(* Reference notions used to state the properties of the collection.       *)
(***************************************************************************)
\* The places GetElementByPath can answer with: the top-level elements and
\* their children.
TopPlaces == {place \in Places(collection) : Len(place) <= 2}

\* The path of such a place from the top level: the path of the key, then
\* for a child a dot and the path of the child.
PlacePath(place) ==
    IF Len(place) = 1 THEN place[1].Path
    ELSE place[1].Path \o <<Dot>> \o ElementAt(collection, place).Path

PlacesWithPath(path) == {place \in TopPlaces : PlacePath(place) = path}

(***************************************************************************)
(* The properties of the collection, under SpecEmber.                      *)
(***************************************************************************)
\* C9, as stated: after Populate succeeds, for every element E of the
\* parsed tree, at any depth, and every child C of E,
\* GetElementByPath(E.path + "." + C.path) returns C.
C9_ChildFoundAtAnyDepth ==
    epc = "looked" => lookup.err = nil /\ lookup.el = lookup.child

\* C9, amended: for every top-level element E of the collection and every
\* child C of E, GetElementByPath(E.path + "." + C.path) succeeds and returns
\* a top-level element or a child of one whose path from the top level is
\* that string; it returns C when no other such element has that path.
C9_TopLevelChildFound ==
    (epc = "looked" /\ lookup.depth = 0) =>
        /\ lookup.err = nil
        /\ \E place \in PlacesWithPath(lookup.path) :
              lookup.el = ElementAt(collection, place)
        /\ Cardinality(PlacesWithPath(lookup.path)) = 1 => lookup.el = lookup.child

\* A child of a top-level element was looked up, found, and is the only
\* element with its path.
C9_Witness ==
    /\ epc = "looked"
    /\ lookup.depth = 0
    /\ lookup.err = nil
    /\ lookup.el = lookup.child
    /\ Cardinality(PlacesWithPath(lookup.path)) = 1

\* What Populate made of the provider response of the decoder test, when the
\* one top-level element has the given kind.
FixtureParsedAs(kind) ==
    /\ popErr = nil
    /\ \E key \in DOMAIN collection :
          /\ DOMAIN collection = {key}
          /\ collection[key].ElementType = kind
          /\ collection[key].Path = <<49>>
          /\ collection[key].Identifier = R3LAYVirtualPatchBay
          /\ collection[key].IsOnline = TRUE

\* C10, as stated: Populate on the provider response of the test fixture
\* returns a collection with exactly one top-level element, whose kind is
\* QualifiedNode, path is "1", identifier is "R3LAYVirtualPatchBay" and
\* is_online is true.
C10_FixtureQualifiedNode ==
    (epc # "start" /\ response = validApplication) => FixtureParsedAs(QualifiedNodeType)

\* C10, amended: the one top-level element is of kind Node (the fixture
\* carries application tag 3), with path "1", identifier
\* "R3LAYVirtualPatchBay" and is_online true.
C10_FixtureNode ==
    (epc # "start" /\ response = validApplication) => FixtureParsedAs(NodeType)

\* Populate has run on the fixture and succeeded.
C10_Witness == epc = "populated" /\ response = validApplication

(***************************************************************************)
(* The properties of the element decoder.                                  *)
(***************************************************************************)
\* The value type a parameter was sent with, 0 when it was sent with none.
SentValueType(p) ==
    IF \E i \in 1..Len(p.fields) : p.fields[i].ctx = 13
    THEN (CHOOSE f \in {p.fields[i] : i \in 1..Len(p.fields)} : f.ctx = 13).body[3]
    ELSE 0

SentValue(p) == \E i \in 1..Len(p.fields) : p.fields[i].ctx = 2

\* The parameter decoded from ParameterPayload(p, below).
DecodedParameter(below) ==
    IF below THEN collection[CHOOSE key \in DOMAIN collection : TRUE].Children[1]
    ELSE collection[CHOOSE key \in DOMAIN collection : TRUE]

DefaultOf(valueType) ==
    IF valueType \in {valueTypeInt, valueTypeReal} THEN [t |-> "int", v |-> 0]
    ELSE IF valueType = valueTypeString THEN [t |-> "string", v |-> <<>>]
    ELSE IF valueType = valueTypeBool THEN [t |-> "bool", v |-> FALSE]
    ELSE NilAny

RECURSIVE RefUnsigned(_)
RefUnsigned(s) ==
    IF s = <<>> THEN 0 ELSE Head(s) * (256 ^ (Len(s) - 1)) + RefUnsigned(Tail(s))

\* The value of bytes read as a two's complement number.
RefTwosComplement(s) ==
    IF s[1] >= 128 THEN RefUnsigned(s) - (256 ^ Len(s)) ELSE RefUnsigned(s)

\* The call the Decoder made, and the bytes it held before.
Decoded(fn) == apc = "decoded" /\ decArgs.fn = fn

\* The bytes c hold a tag, a short length and at least that many bytes.
HoldsContent(c, n) == Len(c) >= 2 /\ c[2] = n /\ Len(c) >= 2 + n

(***************************************************************************)
(* The properties of the asn1 package.                                     *)
(***************************************************************************)
\* C12: DecodeInteger returns the big-endian two's complement value of the
\* content of an INTEGER of 1 to 4 bytes, negative values too, and fails when
\* the tag is not 0x02 or announced content bytes are missing.
C12_TwosComplement ==
    Decoded("DecodeInteger") =>
        /\ \A n \in 1..4 :
              (HoldsContent(decArgs.data, n) /\ decArgs.data[1] = emberIntTag)
              => /\ decRes.err = nil
                 /\ decRes.out = RefTwosComplement(SubSeq(decArgs.data, 3, 2 + n))
        /\ (decArgs.data # <<>> /\ decArgs.data[1] # emberIntTag) => decRes.err # nil
        /\ (/\ Len(decArgs.data) >= 2
            /\ decArgs.data[2] < 128
            /\ Len(decArgs.data) < 2 + decArgs.data[2]) => decRes.err # nil

\* The call the Encoder made.
Written(fn) == apc = "written" /\ encArgs.fn = fn

\* n bytes of 0x00.
Zeros(n) == [i \in 1..n |-> 0]

\* 60 80 6B 80 A0 80 62 80 A0 03 02 01 20 A1 03 02 01 FF
RootRequestHead ==
    <<96, 128, 107, 128, 160, 128, 98, 128, 160, 3, 2, 1, 32, 161, 3, 2, 1, 255>>

\* C13, as stated: the root-tree request payload is the bytes 60 80 6B 80 A0
\* 80 62 80 A0 03 02 01 20 A1 03 02 01 FF followed by six 0x00 bytes.
C13_SixTerminators ==
    (Written("WriteRootTreeRequest") /\ encArgs.data = <<>>)
    => encRes.data = RootRequestHead \o Zeros(6)

\* C13, amended: the root-tree request payload is those eighteen bytes
\* followed by eight 0x00 bytes, two for each of the four containers opened.
C13_EightTerminators ==
    Written("WriteRootTreeRequest")
    => /\ encRes.err = "nil"
       /\ encRes.data = encArgs.data \o RootRequestHead \o Zeros(8)

C13_Witness ==
    /\ Written("WriteRootTreeRequest")
    /\ encArgs.data = <<>>
    /\ Len(encRes.data) = 26

\* What the Encoder wrote: its bytes after those it held before the call.
WrittenBytes == SubSeq(encRes.data, Len(encArgs.data) + 1, Len(encRes.data))

\* A walk over BER bytes from position i, depth containers of indefinite
\* length being open and opened of them met so far: two 0x00 bytes close the
\* innermost open container, the length byte 0x80 opens one, a short length
\* is skipped with its content.
RECURSIVE RefWalk(_, _, _, _)
RefWalk(s, i, depth, opened) ==
    IF i > Len(s) THEN [ok |-> TRUE, depth |-> depth, opened |-> opened]
    ELSE IF i + 1 > Len(s) THEN [ok |-> FALSE, depth |-> depth, opened |-> opened]
    ELSE IF depth > 0 /\ s[i] = 0 /\ s[i + 1] = 0 THEN RefWalk(s, i + 2, depth - 1, opened)
    ELSE IF s[i + 1] = 128 THEN RefWalk(s, i + 2, depth + 1, opened + 1)
    ELSE IF s[i + 1] > 128 \/ i + 1 + s[i + 1] > Len(s)
    THEN [ok |-> FALSE, depth |-> depth, opened |-> opened]
    ELSE RefWalk(s, i + 2 + s[i + 1], depth, opened)

KnownTypes ==
    {ParameterType, QualifiedParameterType, NodeType, QualifiedNodeType, FunctionType}

\* The number of containers a call opens.
ContainersOf(call) ==
    IF call.fn = "WriteRootTreeRequest" THEN 4
    ELSE IF call.fn = "WriteCommand" THEN 2
    ELSE IF call.tag \in KnownTypes THEN 9
    ELSE 3

\* C14: what WriteRootTreeRequest, WriteCommand and WriteRequest write closes
\* every container it opens, the output ending with one 0x00 0x00 pair for
\* each of them (4 for a root request, 9 for a typed request, 3 when
\* WriteRequest fails on an unknown type), and the bytes the encoder held are
\* kept in front.
C14_ContainersClosed ==
    apc = "written"
    => /\ SubSeq(encRes.data, 1, Len(encArgs.data)) = encArgs.data
       /\ RefWalk(WrittenBytes, 1, 0, 0) =
              [ok |-> TRUE, depth |-> 0, opened |-> ContainersOf(encArgs)]
       /\ Len(WrittenBytes) >= 2 * ContainersOf(encArgs)
       /\ \A i \in 1..(2 * ContainersOf(encArgs)) :
             WrittenBytes[Len(WrittenBytes) + 1 - i] = 0
       /\ (encRes.err # "nil") <=> (encArgs.fn = "WriteRequest" /\ encArgs.tag \notin KnownTypes)

\* WriteRequest has failed on an unknown type with bytes in the encoder.
C14_Witness ==
    /\ Written("WriteRequest")
    /\ encArgs.tag \notin KnownTypes
    /\ encArgs.data # <<>>
    /\ encRes.err # "nil"
    /\ Len(WrittenBytes) = 12

\* The element container byte the type string stands for.
RefContainerByte(tag) ==
    IF tag \in {"parameter", "qualified_parameter"} THEN 105
    ELSE IF tag \in {"node", "qualified_node"} THEN 106
    ELSE 116

\* C15: WriteRequest chooses the element container from the type string
\* (parameter and qualified_parameter 0x69, node and qualified_node 0x6A,
\* function 0x74) after application 0, application 11 and context 0, fails
\* on any other type string, and writes the path in context 0 as a universal
\* OID: 0x0D, the number of components, one byte for each component.
C15_ContainerAndPath ==
    Written("WriteRequest")
    => IF encArgs.tag \in {"parameter", "qualified_parameter", "node", "qualified_node",
                           "function"}
       THEN /\ encRes.err = "nil"
            /\ Len(WrittenBytes) >= 10 + Len(encArgs.path) + 2
            /\ SubSeq(WrittenBytes, 1, 6) = <<96, 128, 107, 128, 160, 128>>
            /\ SubSeq(WrittenBytes, 7, 8) = <<RefContainerByte(encArgs.tag), 128>>
            /\ SubSeq(WrittenBytes, 9, 10) = <<160, 128>>
            /\ SubSeq(WrittenBytes, 11, 12) = <<13, Len(encArgs.path)>>
            /\ \A i \in 1..Len(encArgs.path) : WrittenBytes[12 + i] = encArgs.path[i] % 256
       ELSE encRes.err # "nil"

\* The request for node 0.2 has been written.
C15_Witness ==
    /\ Written("WriteRequest")
    /\ encArgs.tag = "node"
    /\ encArgs.path = <<0, 2>>
    /\ encRes.err = "nil"
    /\ SubSeq(WrittenBytes, 7, 14) = <<106, 128, 160, 128, 13, 2, 0, 2>>

\* The containers open, outermost first, where the first container with the
\* given tag byte is opened in BER bytes s, walked from position i with the
\* containers of stack open; <<-1>> when the bytes hold no such container.
RECURSIVE RefEnclosing(_, _, _, _)
RefEnclosing(s, i, stack, tag) ==
    IF i + 1 > Len(s) THEN <<-1>>
    ELSE IF stack # <<>> /\ s[i] = 0 /\ s[i + 1] = 0
    THEN RefEnclosing(s, i + 2, SubSeq(stack, 1, Len(stack) - 1), tag)
    ELSE IF s[i + 1] = 128
    THEN IF s[i] = tag THEN stack ELSE RefEnclosing(s, i + 2, Append(stack, s[i]), tag)
    ELSE IF s[i + 1] > 128 THEN <<-1>>
    ELSE RefEnclosing(s, i + 2 + s[i + 1], stack, tag)

\* C16: in a typed request the element container holds two sibling fields:
\* context 0, which holds the path alone and is closed by its own end
\* marker, and after it context 2, which holds application 4 with the
\* command. Context 2 is therefore opened with the element container as the
\* innermost open container, and the two bytes after the path are zero.
C16_SiblingFields ==
    (Written("WriteRequest") /\ encArgs.tag \in KnownTypes)
    => /\ RefEnclosing(WrittenBytes, 1, <<>>, 162) =
              <<96, 107, 160, RefContainerByte(encArgs.tag)>>
       /\ SubSeq(WrittenBytes, 13 + Len(encArgs.path), 14 + Len(encArgs.path)) = <<0, 0>>
       /\ RefEnclosing(WrittenBytes, 1, <<>>, 100) =
              <<96, 107, 160, RefContainerByte(encArgs.tag), 162>>

\* The DER INTEGER of a command code from 0 to 32767.
RefCommandInteger(cmd) ==
    IF cmd < 128 THEN <<2, 1, cmd>> ELSE <<2, 2, cmd \div 256, cmd % 256>>

\* The bytes of a command with its code in context 0 and, when asked, the
\* field mask -1 in context 1.
RefCommand(cmd, withMask) ==
    <<160, 128, 98, 128>>
    \o <<160, Len(RefCommandInteger(cmd))>> \o RefCommandInteger(cmd)
    \o (IF withMask THEN <<161, 3, 2, 1, 255>> ELSE <<>>)
    \o Zeros(4)

\* C17 as stated: WriteCommand omits the field mask for Unsubscribe (31) and
\* writes the field mask -1 (A1 03 02 01 FF) for every other command code.
C17_MaskForEveryOther ==
    Written("WriteCommand")
    => /\ encRes.err = "nil"
       /\ WrittenBytes = RefCommand(encArgs.cmd, encArgs.cmd # 31)

\* C17, amended: WriteCommand writes the field mask -1 (A1 03 02 01 FF) for
\* GetDirectory (32) and omits it for every other command code, Unsubscribe
\* (31) included.
C17_MaskOnlyForGetDirectory ==
    Written("WriteCommand")
    => /\ encRes.err = "nil"
       /\ WrittenBytes = RefCommand(encArgs.cmd, encArgs.cmd = 32)

\* A command other than GetDirectory and Unsubscribe has been written
\* without a field mask.
C17_Witness ==
    /\ Written("WriteCommand")
    /\ encArgs.cmd = 30
    /\ WrittenBytes = <<160, 128, 98, 128, 160, 3, 2, 1, 30, 0, 0, 0, 0>>

\* The tag byte of a class and a tag number below 32.
RefClassByte(compare, tag) ==
    IF compare = "ApplicationByte" THEN 96 + tag
    ELSE IF compare = "ContextByte" THEN 160 + tag
    ELSE tag

\* The bytes c hold, from their second byte on, a definite length written in
\* k bytes: the length itself below 128 (k = 1), or 0x81 to 0x84 and then
\* that many bytes.
HoldsLength(c, k) ==
    /\ Len(c) >= 1 + k
    /\ IF k = 1 THEN c[2] < 128 ELSE c[2] = 128 + (k - 1)

RefLength(c, k) == IF k = 1 THEN c[2] ELSE RefUnsigned(SubSeq(c, 3, 1 + k))

\* C18: Read(tag, class) fails and returns no sub-reader when the next byte
\* is not class(tag); with a definite length L it returns a sub-reader that
\* holds the next L bytes and leaves the reader just after them, and fails
\* when fewer than L bytes remain; with the length byte 0x80 it returns a
\* sub-reader that holds all the remaining bytes, leaves the reader empty and
\* sets the unknown-length flag.
C18_Read ==
    Decoded("Read")
    => /\ (/\ decArgs.data # <<>>
           /\ decArgs.data[1] # RefClassByte(decArgs.compare, decArgs.tag))
          => (decRes.err # nil /\ "dec" \notin DOMAIN decRes)
       /\ \A k \in 1..5 :
             (/\ decArgs.data # <<>>
              /\ decArgs.data[1] = RefClassByte(decArgs.compare, decArgs.tag)
              /\ HoldsLength(decArgs.data, k))
             => IF Len(decArgs.data) - (1 + k) >= RefLength(decArgs.data, k)
                THEN /\ decRes.err = nil
                     /\ decRes.unknown = FALSE
                     /\ decRes.dec = SubSeq(decArgs.data, 2 + k,
                                            1 + k + RefLength(decArgs.data, k))
                     /\ decRes.rest = SubSeq(decArgs.data,
                                             2 + k + RefLength(decArgs.data, k),
                                             Len(decArgs.data))
                ELSE decRes.err # nil /\ "dec" \notin DOMAIN decRes
       /\ (/\ Len(decArgs.data) >= 2
           /\ decArgs.data[1] = RefClassByte(decArgs.compare, decArgs.tag)
           /\ decArgs.data[2] = 128)
          => /\ decRes.err = nil
             /\ decRes.unknown = TRUE
             /\ decRes.dec = SubSeq(decArgs.data, 3, Len(decArgs.data))
             /\ decRes.rest = <<>>

\* Read has returned a sub-reader of two bytes and left bytes in the reader.
C18_Witness ==
    /\ Decoded("Read")
    /\ decRes.err = nil
    /\ decRes.unknown = FALSE
    /\ Len(decRes.dec) = 2
    /\ decRes.rest # <<>>
    /\ decArgs.data = <<decArgs.data[1], 2>> \o decRes.dec \o decRes.rest

\* C19: readLength returns the first byte b, one byte consumed, when the high
\* bit of b is clear; for 0x81 to 0x84 it returns the big-endian value of the
\* 1 to 4 bytes that follow and the number of bytes consumed; for 0x80 it
\* signals the indefinite length; it fails when more than 4 length bytes are
\* announced (0xFF among them) or when announced length bytes are missing.
C19_ReadLength ==
    Decoded("readLength")
    => /\ (decArgs.data # <<>> /\ decArgs.data[1] < 128)
          => /\ decRes.err = nil
             /\ decRes.len = decArgs.data[1]
             /\ decRes.offset = 1
             /\ decRes.rest = Tail(decArgs.data)
       /\ \A n \in 1..4 :
             (decArgs.data # <<>> /\ decArgs.data[1] = 128 + n)
             => IF Len(decArgs.data) >= 1 + n
                THEN /\ decRes.err = nil
                     /\ decRes.len = RefUnsigned(SubSeq(decArgs.data, 2, 1 + n))
                     /\ decRes.offset = 1 + n
                     /\ decRes.rest = SubSeq(decArgs.data, 2 + n, Len(decArgs.data))
                ELSE decRes.err \notin {nil, ErrNoLenByte}
       /\ (decArgs.data # <<>> /\ decArgs.data[1] = 128) => decRes.err = ErrNoLenByte
       /\ (decArgs.data # <<>> /\ decArgs.data[1] > 132)
          => decRes.err \notin {nil, ErrNoLenByte}

\* readLength has read a length of two bytes that does not fit in one.
C19_Witness ==
    /\ Decoded("readLength")
    /\ Len(decArgs.data) >= 3
    /\ decArgs.data[1] = 130
    /\ decRes.err = nil
    /\ decRes.len = 257
    /\ decRes.offset = 3

\* C20: ReadEnd returns true and consumes two bytes when the next two bytes
\* are both 0x00; with fewer than two bytes it returns true only when there
\* are none; in every other case it returns false and leaves the bytes of
\* the reader as they were.
C20_ReadEnd ==
    Decoded("ReadEnd")
    => IF Len(decArgs.data) >= 2 /\ decArgs.data[1] = 0 /\ decArgs.data[2] = 0
       THEN /\ decRes.end = TRUE
            /\ decRes.err = nil
            /\ decRes.rest = SubSeq(decArgs.data, 3, Len(decArgs.data))
       ELSE IF Len(decArgs.data) = 0
       THEN decRes.end = TRUE /\ decRes.err = nil
       ELSE decRes.end = FALSE /\ decRes.rest = decArgs.data

\* ReadEnd has moved over an end marker that other bytes follow.
C20_Witness ==
    /\ Decoded("ReadEnd")
    /\ Len(decArgs.data) > 2
    /\ decRes.end = TRUE
    /\ decRes.rest = SubSeq(decArgs.data, 3, Len(decArgs.data))
    /\ decRes.rest # <<>>

\* C21: for a path of fewer than 128 components, each from 0 to 255,
\* DecodeUniversal on the bytes WriteUniversal wrote returns the components
\* of the path and consumes the bytes that were written and no other.
C21_UniversalRoundTrip ==
    (/\ Decoded("DecodeUniversal")
     /\ Len(encArgs.path) < 128
     /\ \A i \in 1..Len(encArgs.path) : encArgs.path[i] \in 0..255)
    => /\ decRes.err = nil
       /\ decRes.out = encArgs.path
       /\ Len(decRes.rest) = Len(decArgs.data) - Len(encRes.data)
       /\ encRes.data \o decRes.rest = decArgs.data

\* A path of 127 components has been written and read back with bytes
\* after it left in the Decoder.
C21_Witness ==
    /\ Decoded("DecodeUniversal")
    /\ Len(encArgs.path) = 127
    /\ decRes.err = nil
    /\ decRes.out = encArgs.path
    /\ decRes.rest = <<13, 1>>

\* Populate has returned.
Populated == epc \in {"populated", "failed", "looked"}

\* The payload holds a container of indefinite length that no end marker
\* closes: the walk over it stops with a container still open.
Unterminated(data) == RefWalk(data, 1, 0, 0).depth > 0

\* C22: Populate returns an error for every payload in which a container of
\* indefinite length is not closed by its 0x00 0x00 end marker, as in a
\* payload that is cut before the closing markers.
C22_MissingEndMarker ==
    (Populated /\ Unterminated(response)) => popErr # nil

\* The element type that stands for an application tag, "" for a tag that
\* stands for none.
RefTypeOf(n) ==
    IF n = 1 THEN "parameter"
    ELSE IF n = 3 THEN "node"
    ELSE IF n = 9 THEN "qualified_parameter"
    ELSE IF n = 10 THEN "qualified_node"
    ELSE IF n = 20 THEN "function"
    ELSE ""

\* The elements of the collection and their children that have the path.
ElementsWithPath(ec, path) ==
    {ec[key] : key \in {k \in DOMAIN ec : k.Path = path}}
    \cup UNION {{ec[key].Children[i] :
                    i \in {j \in DOMAIN ec[key].Children : ec[key].Children[j].Path = path}} :
                key \in DOMAIN ec}

\* C23: getElement accepts the application tags 1, 3, 9, 10 and 20 and no
\* other, and gives the element the type of its tag; for every other
\* application tag Populate returns an error and no element is added for
\* the tag.
C23_ElementKinds ==
    Populated
    => \A n \in ElementTags, place \in TagPlaces :
          response = TaggedPayload(n, place)
          => IF RefTypeOf(n) # ""
             THEN /\ popErr = nil
                  /\ Cardinality(ElementsWithPath(collection, <<55>>)) = 1
                  /\ \A el \in ElementsWithPath(collection, <<55>>) :
                        el.ElementType = RefTypeOf(n)
             ELSE /\ popErr # nil
                  /\ ElementsWithPath(collection, <<55>>) = {}

\* Populate has failed on an element of an unknown kind that follows a node,
\* and the collection holds the node alone.
C23_Witness ==
    /\ Populated
    /\ response = TaggedPayload(2, "second")
    /\ popErr # nil
    /\ Cardinality(DOMAIN collection) = 1
    /\ \A key \in DOMAIN collection : key.Path = <<49>>

\* The decoders of the list given to findWithData that hold bytes.
Holding == {i \in DOMAIN finding.decoders : Len(finding.decoders[i]) > 0}

\* C24: findWithData returns the one decoder that still holds bytes, an
\* empty decoder when none holds bytes, and an error when more than one
\* holds bytes.
C24_FindWithData ==
    epc = "found"
    => /\ Cardinality(Holding) = 1
          => /\ finding.res.err = nil
             /\ \A i \in Holding : finding.res.dec = finding.decoders[i]
       /\ Holding = {} => (finding.res.err = nil /\ finding.res.dec = <<>>)
       /\ Cardinality(Holding) > 1
          => (finding.res.err # nil /\ "dec" \notin DOMAIN finding.res)

\* Of three decoders the second alone holds bytes, and it is returned.
C24_Witness ==
    /\ epc = "found"
    /\ Len(finding.decoders) = 3
    /\ Holding = {2}
    /\ finding.res.err = nil
    /\ finding.res.dec = finding.decoders[2]

\* The path of numbers below 10 as a string: the digits, with dots between.
RECURSIVE RefDotted(_)
RefDotted(path) ==
    IF Len(path) = 0 THEN <<>>
    ELSE IF Len(path) = 1 THEN <<48 + path[1]>>
    ELSE <<48 + path[1], 46>> \o RefDotted(Tail(path))

\* The element el is what the tree t without grandchildren decodes to: its
\* path, its identifier, and its children one for one in the order sent.
DecodesTo(el, t) ==
    /\ el.Path = RefDotted(t.path)
    /\ el.ElementType = t.kind
    /\ el.Identifier = t.ident
    /\ Len(el.Children) = Len(t.children)
    /\ \A i \in 1..Len(t.children) :
          /\ el.Children[i].Path = RefDotted(t.children[i].path)
          /\ el.Children[i].ElementType = t.children[i].kind
          /\ el.Children[i].Identifier = t.children[i].ident

\* C25: an element whose body holds a path (context 0), contents (context 1)
\* and children (context 2) is decoded with all three: the path and the
\* identifier are set and every child is appended in the order sent, when
\* the containers have definite lengths and when they have the indefinite
\* length and are closed by end markers.
C25_PathContentsChildren ==
    Populated
    => \A t \in FullTrees, open \in BOOLEAN :
          response = EncodeRootsIn(open, <<t>>)
          => /\ popErr = nil
             /\ Cardinality(DOMAIN collection) = 1
             /\ \A key \in DOMAIN collection : DecodesTo(collection[key], t)

\* The same for the containers of definite length alone.
DefiniteFormDecoded ==
    Populated
    => \A t \in FullTrees :
          response = EncodeRootsIn(FALSE, <<t>>)
          => /\ popErr = nil
             /\ Cardinality(DOMAIN collection) = 1
             /\ \A key \in DOMAIN collection : DecodesTo(collection[key], t)

(***************************************************************************)
(* The properties of the scanner and of Decode on frames that are not      *)
(* well formed.                                                            *)
(***************************************************************************)
\* C26: in the scan a BOF always begins a new frame and the bytes collected
\* for a frame not yet ended are dropped, bytes outside a frame are dropped,
\* and a frame ends at the first EOF after its BOF; so every frame GetS101s
\* returns begins with BOF, ends with EOF and holds no other BOF or EOF.
C26_FramesBracketed ==
    (pc = "split" /\ getErr = "nil")
    => /\ Len(s101s) = Cardinality(FrameEnds(wire))
       /\ \A n \in 1..Len(s101s) :
             /\ s101s[n] = SubSeq(wire, FrameStart(wire, Nth(FrameEnds(wire), n)),
                                  Nth(FrameEnds(wire), n))
             /\ Len(s101s[n]) >= 2
             /\ s101s[n][1] = 254
             /\ s101s[n][Len(s101s[n])] = 255
             /\ \A j \in 2..(Len(s101s[n]) - 1) : s101s[n][j] \notin {254, 255}

\* A frame was begun, a second BOF came before its EOF, and the frame
\* returned begins at the second BOF.
C26_Witness ==
    /\ pc = "split"
    /\ wire = <<254, 65, 254, 255>>
    /\ s101s = <<(<<254, 255>>)>>

\* The frames of the list given to Decode that are shorter than the header,
\* the CRC and EOF together: 13 bytes.
ShortFrames == {i \in 1..Len(s101s) : Len(s101s[i]) < 13}

\* The frame, without its last three bytes, holds the ten bytes up to the
\* glow data once its escape markers are taken away.
HoldsHeader(f) == Cardinality(NonMarkers(SubSeq(f, 1, Len(f) - 3))) >= 10

EscapeAtTail(f) ==
    /\ Len(f) >= 13
    /\ f[Len(f) - 3] = 253
    /\ f[Len(f) - 4] # 253

\* C28: Decode returns an error for a frame whose content before the CRC
\* ends with the escape byte 0xFD with no byte after it to escape.  The
\* frames are those of a stream read from a connection, not written by
\* Encode.
C28_EscapeAtTail ==
    (/\ pc = "decoded"
     /\ ~FromEncode
     /\ \E i \in 1..Len(s101s) : EscapeAtTail(s101s[i]))
    => decErr # "nil"

\* C29: GetS101s called with an empty input returns the error "no data" and
\* neither frames nor trailing bytes; for every input that is not empty it
\* returns no error.
C29_EmptyInput ==
    (pc \in {"split", "decoded"}) =>
        /\ (Len(wire) = 0) =>
              /\ getErr = "no data"
              /\ s101s = <<>>
              /\ incompleteData = <<>>
        /\ (Len(wire) > 0) => getErr = "nil"

C29_Witness ==
    /\ pc = "split"
    /\ Len(wire) = 0
    /\ getErr = "no data"

(***************************************************************************)
(* The properties of the client.                                           *)
(***************************************************************************)
\* C30: the client's operations are guarded by its connection state.  A
\* Connect made while a connection is held fails with "already connected" and
\* keeps that connection; a Connect whose dial fails leaves the client not
\* connected; Disconnect, Write, Receive and GetByType made while no connection
\* is held fail with "not connected".
C30_ConnectionGuards ==
    [][/\ (lastCall'.op = "Connect" /\ IsConnected(conn)) =>
              /\ lastCall'.err = <<"already connected">>
              /\ conn' = conn
       /\ (lastCall'.op = "Connect" /\ ~IsConnected(conn) /\ lastCall'.err # nil) =>
              ~IsConnected(conn')
       /\ (lastCall'.op \in {"Disconnect", "Write", "Receive", "GetByType"}
           /\ ~IsConnected(conn)) =>
              /\ lastCall'.err = <<"not connected">>
              /\ ~IsConnected(conn')]_clientvars

C30_Witness ==
    /\ conn = "open"
    /\ lastCall.op = "Connect"
    /\ lastCall.err = <<"already connected">>

\* C39: Decode returns a payload or an error for every list of frames and
\* never indexes out of range: a frame that passes the minimum-length check
\* keeps, after de-escaping, at least the bytes of the header that is cut off.
C39_DecodeInRange ==
    (pc = "decoded") => decErr \in {"nil", "malformed"}

\* C40: after a Disconnect that returned no error the client is no longer
\* connected: IsConnected is false, so that a following Disconnect, Write or
\* Receive fails with "not connected" and a following Connect dials again.
C40_DisconnectClears ==
    (lastCall.op = "Disconnect" /\ lastCall.err = nil) => ~IsConnected(conn)

(***************************************************************************)
(* The properties of the receive loop.  The reference notions are written  *)
(* from the description of a logical message, not from the code.           *)
(***************************************************************************)
RECURSIVE Flatten(_)
Flatten(ss) == IF ss = <<>> THEN <<>> ELSE Head(ss) \o Flatten(Tail(ss))

RECURSIVE FramesOfReads(_)
FramesOfReads(reads) ==
    IF reads = <<>> THEN <<>> ELSE RefFrames(Head(reads)) \o FramesOfReads(Tail(reads))

\* Every read holds whole frames and nothing else; no frame holds an escape
\* byte, so its payload is what stands between the header and the CRC.
WholeFrames(reads) ==
    /\ reads # <<>>
    /\ \A i \in 1..Len(reads) :
          /\ Flatten(RefFrames(reads[i])) = reads[i]
          /\ \A n \in 1..Len(RefFrames(reads[i])) :
                LET f == RefFrames(reads[i])[n]
                IN  /\ Len(f) >= s101LenTilGlow + s101LenAfterGlow
                    /\ f[6] \in PacketTypes
                    /\ \A j \in 1..Len(f) : f[j] # ce

\* The logical message of frames that arrive in this order: the payloads of
\* the multi-packet frames up to the first last-multi frame, or the payload
\* of a single-packet frame that comes while no multi-packet message is in
\* progress; a single-packet frame that comes in the middle is left out.
RECURSIVE RefMessage(_, _, _)
RefMessage(frames, acc, multi) ==
    IF frames = <<>> THEN [done |-> FALSE, msg |-> acc]
    ELSE LET f == Head(frames)
             body == SubSeq(f, s101LenTilGlow + 1, Len(f) - s101LenAfterGlow)
         IN  IF f[6] \in {FirstMultiPacket, BodyMultiPacket}
             THEN RefMessage(Tail(frames), acc \o body, TRUE)
             ELSE IF f[6] = LastMultiPacket
             THEN [done |-> TRUE, msg |-> acc \o body]
             ELSE IF multi
             THEN RefMessage(Tail(frames), acc, multi)
             ELSE [done |-> TRUE, msg |-> body]

\* C31: the receive loop returns exactly one logical message, however the
\* frames are grouped into reads: the payloads of a multi-packet message in
\* arrival order up to its last-multi frame, or one single-packet payload; a
\* single-packet frame inside a multi-packet message is dropped.
C31_OneLogicalMessage ==
    (/\ lastCall.op = "Receive"
     /\ lastCall.err = nil
     /\ WholeFrames(lastCall.reads))
    => /\ RefMessage(FramesOfReads(lastCall.reads), <<>>, FALSE).done
       /\ lastCall.out = RefMessage(FramesOfReads(lastCall.reads), <<>>, FALSE).msg

\* The same for the calls that were given one frame in each read.
OneFramePerRead ==
    (/\ lastCall.op = "Receive"
     /\ lastCall.err = nil
     /\ WholeFrames(lastCall.reads)
     /\ \A i \in 1..Len(lastCall.reads) : Len(RefFrames(lastCall.reads[i])) = 1)
    => /\ RefMessage(FramesOfReads(lastCall.reads), <<>>, FALSE).done
       /\ lastCall.out = RefMessage(FramesOfReads(lastCall.reads), <<>>, FALSE).msg

\* The reads are the pieces of one frame, two or more, none empty.
OneFrameInPieces(reads) ==
    /\ Len(reads) >= 2
    /\ \A i \in 1..Len(reads) : Len(reads[i]) > 0
    /\ RefFrames(Flatten(reads)) = <<Flatten(reads)>>

\* C32: re-assembly across short reads preserves bytes.  The payload the
\* receive loop returns for a frame that came in two or more reads is the
\* payload it returns for the same frame in one read.
C32_ShortReads ==
    (/\ lastCall.op = "Receive"
     /\ OneFrameInPieces(lastCall.reads))
    => /\ lastCall.err = nil
       /\ lastCall.out = Receive("open", <<Flatten(lastCall.reads)>>).out

(***************************************************************************)
(* The connection pool.                                                    *)
(***************************************************************************)
\* The handlers whose connection was dialled and is not closed.
OpenHandlers == {h \in Callers : handler[h].conn = "open"}

\* caller c has lost the race to store the handler it dialled.
LostRace(c) ==
    /\ handler[c].conn # "none"
    /\ caller[c].pc \notin {"idle", "newConn", "setConn", "existing"}
    /\ ~(caller[c].pc = "returned" /\ caller[c].ch = NoHandler)
    /\ caller[c].ch # c

\* A step in which caller c obtains a handler from get.
Obtains(c) == caller[c].ch = NoHandler /\ caller'[c].ch # NoHandler

\* C35: the map holds at most one handler for the config; a caller that
\* obtains a handler obtains the one the map holds at that moment; the
\* connection dialled by a caller that lost the race to store its handler is
\* closed, so that an open connection is the one in the map or one whose
\* caller has still to store it or to give it up.
C35_OneHandler ==
    /\ [](/\ conns \in Callers \cup {NoHandler}
          /\ \A c \in Callers : LostRace(c) => handler[c].conn = "closed"
          /\ \A h \in OpenHandlers :
                h = getConn(conns) \/ caller[h].pc \in {"setConn", "existing"})
    /\ [][\A c \in Callers : Obtains(c) => caller'[c].ch = getConn(conns')]_vars

C35_Witness ==
    \E c \in Callers :
       /\ LostRace(c)
       /\ caller[c].ch = getConn(conns)
       /\ handler[c].conn = "closed"
       /\ handler[caller[c].ch].conn = "open"

\* The callers that hold the mutex of handler h: they are between Lock and
\* the return of HandleRequest.
Outstanding(h) ==
    {c \in Callers : /\ caller[c].ch = h
                     /\ caller[c].pc \in {"expectedPath", "SetWriteDeadline", "Write",
                                          "close", "parsedData"}}

\* C37: on one handler at most one request is outstanding: while one caller
\* is between Lock and its return, no other caller of the same handler
\* registers its path or writes; the other waits at Lock, and the mutex names
\* the one caller.
C37_OneOutstanding ==
    \A h \in Callers :
       /\ Cardinality(Outstanding(h)) <= 1
       /\ \A c \in Outstanding(h) : handler[h].mu = c
       /\ Outstanding(h) = {} => handler[h].mu = 0

\* One caller is past Lock and the other waits at Lock for the same handler.
C37_Witness ==
    \E c, d \in Callers :
       /\ c # d
       /\ caller[c].ch = caller[d].ch
       /\ caller[c].pc = "parsedData"
       /\ caller[d].pc = "Lock"

IndexOf(at) == CHOOSE i \in 1..Len(HandleRequestOrder) : HandleRequestOrder[i] = at

\* Caller c has made its Write and has not returned.
RequestWritten(c) ==
    /\ caller[c].pc \in {"expectedPath", "SetWriteDeadline", "parsedData"}
    /\ IndexOf(caller[c].pc) > IndexOf("Write")

\* C38: the path is taken by pathReader before the request is written: from
\* the Write of a caller to its return pathReader is in readExpected with the
\* path of that caller, or holds its result, so that a message the reader
\* hands over in that time goes to readExpected and not to the select that
\* drops it.
C38_PathBeforeWrite ==
    \A c \in Callers :
       RequestWritten(c) =>
          /\ pathReader[caller[c].ch].pc \in {"readExpected", "parsedData"}
          /\ pathReader[caller[c].ch].by = c
          /\ pathReader[caller[c].ch].path = caller[c].path

\* The request is written, the reader holds a message read after the path was
\* taken, and readExpected waits for it.
C38_Witness ==
    \E c \in Callers :
       /\ RequestWritten(c)
       /\ pathReader[caller[c].ch].pc = "readExpected"
       /\ reader[caller[c].ch].pc = "readData"
       /\ reader[caller[c].ch].err = nil
       /\ reader[caller[c].ch].during = c

\* The components of a dotted path as the claim counts them: none for the
\* empty path.
Components(path) == IF path = <<>> THEN <<>> ELSE SplitDots(path, <<>>)

\* The collection returned to caller c is not empty, was examined at one of
\* its elements, and the path of that element has the components of the path
\* asked for as a prefix and their number, or one more, as its length (1 or 2
\* for the empty path).
Matched(c) ==
    LET res == caller[c].res
        want == Components(caller[c].path)
        n == IF want = <<>> THEN 1 ELSE Len(want)
    IN  /\ DOMAIN res.el # {}
        /\ \E k \in DOMAIN res.el : SplitDots(k.Path, <<>>) = res.gotPath
        /\ Len(res.gotPath) \in {n, n + 1}
        /\ SubSeq(res.gotPath, 1, Len(want)) = want

HasCollection(c) == caller[c].pc = "returned" /\ caller[c].res.err = nil

\* C33: HandleRequest returns a collection only if it is not empty and the
\* path of its examined element matches the path asked for; a message that
\* cannot be parsed or does not match is skipped.  The collection comes from
\* a message that readExpected took from the reader after the path was
\* registered.
C33_MatchedCollection == \A c \in Callers : HasCollection(c) => Matched(c)

\* C33 as stated: the message was moreover received from the connection after
\* the path was registered.
C33_ReceivedAfterRegistered ==
    \A c \in Callers : HasCollection(c) => Matched(c) /\ caller[c].res.during = c

\* A collection is returned that the reader had read before the path was
\* registered.
C33_Witness ==
    \E c \in Callers : HasCollection(c) /\ Matched(c) /\ caller[c].res.during # c

\* A call of HandleRequest by c is under way.
Called(c) == caller[c].pc \notin {"idle", "returned"}

\* C34: every call of HandleRequest returns in the end.
C34_Returns == \A c \in Callers : Called(c) ~> caller[c].pc = "returned"

\* The connection of handler h is closed, or its next read fails.
ConnEnded(h) ==
    \/ handler[h].conn = "closed"
    \/ reader[h].pc \in {"readData", "close", "closeReadData", "done"} /\ reader[h].err # nil

\* The goroutines of handler h have ended.
Terminated(h) == reader[h].pc = "done" /\ pathReader[h].pc = "done"

\* C36: once the read of a connection has failed or the connection is
\* closed, the reader and the pathReader of its handler end.
C36_GoroutinesEnd == \A h \in Callers : ConnEnded(h) /\ reader[h].pc # "none" ~> Terminated(h)

====
